---- MODULE Spec2Model ----
(***************************************************************************)
(* The XDR codec engine of ts-stellar-sdk: the codec combinators           *)
(* (xdrStruct, xdrEnum, taggedUnion, lazy, fixedArray, varArray, option),  *)
(* the BaseCodec entry points (toXdr / fromXdr) and the Reader / Writer /  *)
(* Limits objects they drive; the JSON-RPC client: jsonRpcPost,            *)
(* RpcClient.pollTransaction and assembleTransaction; the SEP helpers      *)
(* checkMemoRequired and resolveFederationAddress; and the base32 of the   *)
(* strkey module.                                                          *)
(*                                                                         *)
(* JavaScript values are tagged records:                                   *)
(*   [t |-> "num", hi, lo]   the number hi * 65536 + lo (0 <= lo < 65536)  *)
(*   [t |-> "str", s]        a string                                      *)
(*   [t |-> "undef"]         undefined                                     *)
(*   [t |-> "arr", items]    an array                                      *)
(*   [t |-> "obj", props]    an object: its own properties in key order,   *)
(*                           each [k |-> name, v |-> value]                *)
(*   [t |-> "bytes", b]      a Uint8Array                                  *)
(*   [t |-> "fn"]            a function (a method inherited from           *)
(*                           Object.prototype)                             *)
(* Numbers are split in two 16-bit halves so that the whole 32-bit range   *)
(* of the wire format is represented exactly.                              *)
(***************************************************************************)
EXTENDS Integers, Sequences, FiniteSets, TLC

VARIABLES limits, cached, factoryCalls, lazyUsed, last,
          nextId, sent, inflight, rejectedIds, poll,
          asm, memo, fed, b32

codecVars == <<limits, cached, factoryCalls, lazyUsed, last>>
rpcVars == <<nextId, sent, inflight, rejectedIds, poll>>
\* the calls of assembleTransaction, checkMemoRequired,
\* resolveFederationAddress and the base32 functions
callVars == <<asm, memo, fed, b32>>
vars == <<limits, cached, factoryCalls, lazyUsed, last,
          nextId, sent, inflight, rejectedIds, poll,
          asm, memo, fed, b32>>

(***************************************************************************)
(* Bounds of the model                                                     *)
(***************************************************************************)
\* largest depth ceiling of the caller-supplied Limits object
MaxCeiling == 3
\* longest hand-made input, in 4-byte words
MaxWords == 3
\* largest attempts option passed to pollTransaction
MaxAttempts == 3
\* jsonRpcPost calls made beside the poll
MaxDirect == 2
\* those calls are made among the first MaxSent requests
MaxSent == 4

(***************************************************************************)
(* Program constants                                                       *)
(***************************************************************************)
DEFAULT_DEPTH == 512
\* opts?.attempts ?? 30
DEFAULT_ATTEMPTS == 30

(***************************************************************************)
(* Values                                                                  *)
(***************************************************************************)
Num(n) == [t |-> "num", hi |-> n \div 65536, lo |-> n % 65536]
Str(s) == [t |-> "str", s |-> s]
Undefined == [t |-> "undef"]
Arr(items) == [t |-> "arr", items |-> items]
Obj(props) == [t |-> "obj", props |-> props]
P(k, v) == [k |-> k, v |-> v]
ByteArray(b) == [t |-> "bytes", b |-> b]
\* a method an object literal inherits from Object.prototype
Inherited == [t |-> "fn"]
\* names every object literal answers to through its prototype
ObjectPrototype == {"toString", "constructor"}

\* value[name] of a JavaScript value
Get(value, name) ==
    IF value.t = "obj" /\ \E i \in 1..Len(value.props) : value.props[i].k = name
    THEN LET i == CHOOSE j \in 1..Len(value.props) : value.props[j].k = name
         IN value.props[i].v
    ELSE Undefined

\* name in value
Has(value, name) ==
    value.t = "obj" /\ \E i \in 1..Len(value.props) : value.props[i].k = name

\* Object.keys(value)
Keys(value) == {value.props[i].k : i \in 1..Len(value.props)}

(***************************************************************************)
(* A Reader or Writer session.  One record serves both:                    *)
(*   buf   the Writer's output so far / the Reader's input                 *)
(*   pos   the Reader's cursor                                             *)
(*   max   the depth ceiling of the session's Limits                       *)
(*   cur   the current-depth counter of the session's Limits               *)
(*   err   "" while no error has been thrown, else the kind of the error   *)
(*         that is propagating                                             *)
(*   val   the value returned by the last decode                           *)
(*   cached, calls   the cells of the lazy codecs (they outlive a session) *)
(*   used  the lazy codecs whose encode or decode ran in this session      *)
(***************************************************************************)
Session(buf, max, cur, cch, calls) ==
    [buf |-> buf, pos |-> 0, max |-> max, cur |-> cur, err |-> "",
     val |-> Undefined, cached |-> cch, calls |-> calls, used |-> {}]

Throw(st, kind) == [st EXCEPT !.err = kind, !.val = Undefined]
Return(st, value) == [st EXCEPT !.val = value]

(***************************************************************************)
(* Limits: scoped depth increment                                          *)
(***************************************************************************)
\* entering a level: fails once the current depth has reached the ceiling
enterDepth(st) ==
    IF st.cur >= st.max
    THEN Throw(st, "DepthLimitExceeded")
    ELSE [st EXCEPT !.cur = @ + 1]

\* leaving a level, on return and on throw alike
leaveDepth(r) == [r EXCEPT !.cur = @ - 1]

withDepth(fn(_), st) ==
    LET entered == enterDepth(st)
    IN  IF entered.err # "" THEN entered ELSE leaveDepth(fn(entered))

(***************************************************************************)
(* Writer                                                                  *)
(***************************************************************************)
\* the four big-endian bytes of a 32-bit word
Bytes32(value) ==
    LET h == value.hi % 65536
    IN  <<h \div 256, h % 256, value.lo \div 256, value.lo % 256>>

writeInt32(st, value) ==
    IF value.t # "num" \/ value.hi < -32768 \/ value.hi > 32767
    THEN Throw(st, "InvalidValue")
    ELSE [st EXCEPT !.buf = @ \o Bytes32(value)]

writeUint32(st, value) ==
    IF value.t # "num" \/ value.hi < 0 \/ value.hi > 65535
    THEN Throw(st, "InvalidValue")
    ELSE [st EXCEPT !.buf = @ \o Bytes32(value)]

\* the maxLength argument left out
NoMax == -1
\* the zero bytes that fill n bytes up to the next 4-byte boundary
PadOf(n) == (4 - (n % 4)) % 4
Zeros(n) == [i \in 1..n |-> 0]

\* the length is validated against the maximum, then the prefix, the payload
\* and the zero padding are written
writeVarOpaque(st, value, maxLength) ==
    IF value.t # "bytes" THEN Throw(st, "TypeError")
    ELSE IF maxLength # NoMax /\ Len(value.b) > maxLength
    THEN Throw(st, "LengthExceedsMax")
    ELSE [st EXCEPT !.buf = @ \o Bytes32(Num(Len(value.b))) \o value.b
                                \o Zeros(PadOf(Len(value.b)))]

toUint8Array(st) == st.buf

(***************************************************************************)
(* Reader                                                                  *)
(***************************************************************************)
Half(st, at) == st.buf[at] * 256 + st.buf[at + 1]

readInt32(st) ==
    IF st.pos + 4 > Len(st.buf)
    THEN Throw(st, "BufferUnderflow")
    ELSE LET h == Half(st, st.pos + 1)
         IN  [st EXCEPT !.pos = @ + 4,
                        !.val = [t |-> "num",
                                 hi |-> IF h >= 32768 THEN h - 65536 ELSE h,
                                 lo |-> Half(st, st.pos + 3)]]

readUint32(st) ==
    IF st.pos + 4 > Len(st.buf)
    THEN Throw(st, "BufferUnderflow")
    ELSE [st EXCEPT !.pos = @ + 4,
                    !.val = [t |-> "num", hi |-> Half(st, st.pos + 1),
                             lo |-> Half(st, st.pos + 3)]]

readBool(st) ==
    LET r == readInt32(st)
    IN  IF r.err # "" THEN r
        ELSE IF r.val = Num(0) THEN Return(r, [t |-> "bool", b |-> FALSE])
        ELSE IF r.val = Num(1) THEN Return(r, [t |-> "bool", b |-> TRUE])
        ELSE Throw(r, "InvalidValue")

\* the prefix is read, checked against the maximum if there is one, then
\* against the bytes the buffer still holds; the padding must be zero
readVarOpaque(st, maxLength) ==
    LET r == readUint32(st)
        len == r.val
    IN  IF r.err # "" THEN r
        ELSE IF maxLength # NoMax /\ (len.hi > 0 \/ len.lo > maxLength)
        THEN Throw(r, "LengthExceedsMax")
        ELSE IF len.hi > 0 \/ r.pos + len.lo + PadOf(len.lo) > Len(r.buf)
        THEN Throw(r, "BufferUnderflow")
        ELSE IF \E i \in 1..PadOf(len.lo) : r.buf[r.pos + len.lo + i] # 0
        THEN Throw(r, "NonZeroPadding")
        ELSE [r EXCEPT !.pos = @ + len.lo + PadOf(len.lo),
                       !.val = ByteArray(SubSeq(r.buf, r.pos + 1, r.pos + len.lo))]

ensureEnd(st) ==
    IF st.pos # Len(st.buf) THEN Throw(st, "BufferNotFullyConsumed") ELSE st

(***************************************************************************)
(* Codecs.  A codec is a record naming its combinator and its arguments;   *)
(* NoCodec stands for an absent (undefined) payload codec.                 *)
(***************************************************************************)
NoCodec == [kind |-> "undefined"]
int32 == [kind |-> "int32"]
uint32 == [kind |-> "uint32"]
xdrStruct(fields) == [kind |-> "struct", fields |-> fields]
xdrEnum(members) == [kind |-> "enum", members |-> members]
taggedUnion(switchOn, arms, hasDefault, defaultCodec) ==
    [kind |-> "union", switchOn |-> switchOn, arms |-> arms,
     hasDefault |-> hasDefault, defaultCodec |-> defaultCodec]
lazy(id) == [kind |-> "lazy", id |-> id]
fixedArray(n, codec) == [kind |-> "fixedArray", n |-> n, codec |-> codec]
varArray(max, codec) == [kind |-> "varArray", max |-> max, codec |-> codec]
option(codec) == [kind |-> "option", codec |-> codec]
varOpaque(maxLength) == [kind |-> "varOpaque", max |-> maxLength]
\* a struct field, an enum member, a union arm
F(name, codec) == [name |-> name, codec |-> codec]
M(name, code) == [name |-> name, code |-> code]
Arm(tags, codec) == [tags |-> tags, codec |-> codec]

Range(seq) == {seq[i] : i \in 1..Len(seq)}
MaxOf(S) == CHOOSE x \in S : \A y \in S : y <= x

RECURSIVE Encode(_, _, _), Decode(_, _), LazyTarget(_)
RECURSIVE EncodeFields(_, _, _, _), DecodeFields(_, _, _, _)
RECURSIVE EncodeItems(_, _, _, _, _), DecodeItems(_, _, _, _, _)

(***************************************************************************)
(* xdrStruct                                                               *)
(***************************************************************************)
\* for (const [name, codec] of fields) codec.encode(writer, value[name])
EncodeFields(fields, value, i, st) ==
    IF i > Len(fields) THEN st
    ELSE LET r == Encode(fields[i].codec, Get(value, fields[i].name), st)
         IN  IF r.err # "" THEN r ELSE EncodeFields(fields, value, i + 1, r)

\* for (const [name, codec] of fields) result[name] = codec.decode(reader)
DecodeFields(fields, result, i, st) ==
    IF i > Len(fields) THEN Return(st, Obj(result))
    ELSE LET r == Decode(fields[i].codec, st)
         IN  IF r.err # "" THEN r
             ELSE DecodeFields(fields, Append(result, P(fields[i].name, r.val)),
                               i + 1, r)

\* the fields in the order of the value's own keys (a for-in over the value)
FieldsByKeys(fields, value) ==
    IF value.t = "obj" /\ Len(value.props) = Len(fields)
       /\ Keys(value) = {fields[i].name : i \in 1..Len(fields)}
    THEN [i \in 1..Len(fields) |->
            fields[CHOOSE j \in 1..Len(fields) : fields[j].name = value.props[i].k]]
    ELSE fields

\* xdrStruct.encode walking the value's keys instead of the declared fields
xdrStructEncodeByKeys(c, value, st) ==
    withDepth(LAMBDA s : IF value.t \in {"undef"}
                         THEN Throw(s, "TypeError")
                         ELSE EncodeFields(FieldsByKeys(c.fields, value), value, 1, s), st)

xdrStructEncode(c, value, st) ==
    withDepth(LAMBDA s : IF value.t \in {"undef"}
                         THEN Throw(s, "TypeError")
                         ELSE EncodeFields(c.fields, value, 1, s), st)

\* xdrStruct.decode with the decrement on the normal path only (no finally)
xdrStructDecodeNoFinally(c, st) ==
    IF st.cur >= st.max
    THEN Throw(st, "DepthLimitExceeded")
    ELSE LET r == DecodeFields(c.fields, <<>>, 1, [st EXCEPT !.cur = @ + 1])
         IN  IF r.err # "" THEN r ELSE [r EXCEPT !.cur = @ - 1]

\* xdrStruct.decode without the depth scope
xdrStructDecodeUnscoped(c, st) == DecodeFields(c.fields, <<>>, 1, st)

\* xdrStruct.decode that catches what its fields throw and throws its own
\* error instead
xdrStructDecodeWrapped(c, st) ==
    LET r == withDepth(LAMBDA s : DecodeFields(c.fields, <<>>, 1, s), st)
    IN  IF r.err \notin {"", "DepthLimitExceeded"} THEN Throw(r, "InvalidValue") ELSE r

xdrStructDecode(c, st) ==
    withDepth(LAMBDA s : DecodeFields(c.fields, <<>>, 1, s), st)

(***************************************************************************)
(* xdrEnum                                                                 *)
(***************************************************************************)
\* members[value]: members is an object literal, so the lookup finds the
\* member's own property, else a property of Object.prototype, else undefined
memberCode(members, value) ==
    IF value.t = "str" /\ \E i \in 1..Len(members) : members[i].name = value.s
    THEN Num(members[CHOOSE i \in 1..Len(members) : members[i].name = value.s].code)
    ELSE IF value.t = "str" /\ value.s \in ObjectPrototype THEN Inherited
    ELSE Undefined

\* a reverse map that holds no negative code
reverseMapUnsigned(members, raw) ==
    LET at == {i \in 1..Len(members) : Num(members[i].code) = raw /\ members[i].code >= 0}
    IN  IF at = {} THEN Undefined ELSE Str(members[MaxOf(at)].name)

\* reverseMap.get(raw): the last member declared with this code
reverseMap(members, raw) ==
    LET at == {i \in 1..Len(members) : Num(members[i].code) = raw}
    IN  IF at = {} THEN Undefined ELSE Str(members[MaxOf(at)].name)

xdrEnumEncode(c, value, st) ==
    LET numericValue == memberCode(c.members, value)
    IN  IF numericValue = Undefined
        THEN Throw(st, "InvalidEnumValue")
        ELSE writeInt32(st, numericValue)

xdrEnumDecode(c, st) ==
    LET r == readInt32(st)
    IN  IF r.err # "" THEN r
        ELSE LET name == reverseMap(c.members, r.val)
             IN  IF name = Undefined
                 THEN Throw(r, "InvalidEnumValue")
                 ELSE Return(r, name)

(***************************************************************************)
(* lazy                                                                    *)
(***************************************************************************)
\* get that runs the factory on every call (no cell)
lazyGetUncached(c, st) ==
    [st EXCEPT !.cached = @ \cup {c.id},
               !.calls = [@ EXCEPT ![c.id] = IF @ < 2 THEN @ + 1 ELSE @],
               !.used = @ \cup {c.id}]

\* get = () => (cached ??= factory())
lazyGet(c, st) ==
    IF c.id \in st.cached THEN [st EXCEPT !.used = @ \cup {c.id}]
    ELSE [st EXCEPT !.cached = @ \cup {c.id},
                    !.calls = [@ EXCEPT ![c.id] = @ + 1],
                    !.used = @ \cup {c.id}]

lazyEncode(c, value, st) == Encode(LazyTarget(c.id), value, lazyGet(c, st))

lazyDecode(c, st) == Decode(LazyTarget(c.id), lazyGet(c, st))

(***************************************************************************)
(* taggedUnion                                                             *)
(***************************************************************************)
\* armMap.has(tag)
armMapHas(config, tag) ==
    \E i \in 1..Len(config.arms) : tag \in Range(config.arms[i].tags)

\* armMap.get(tag): armMap.set overwrites, so the last arm listing the tag
armMapGet(config, tag) ==
    IF armMapHas(config, tag)
    THEN config.arms[MaxOf({i \in 1..Len(config.arms) :
                              tag \in Range(config.arms[i].tags)})].codec
    ELSE NoCodec

\* arm selection that takes a void explicit arm for a missing one
selectArmNoHas(config, tag) ==
    LET armCodec == armMapGet(config, tag)
    IN  IF armCodec = NoCodec
        THEN IF ~config.hasDefault
             THEN [throw |-> TRUE, armCodec |-> NoCodec]
             ELSE [throw |-> FALSE, armCodec |-> config.defaultCodec]
        ELSE [throw |-> FALSE, armCodec |-> armCodec]

\* arm selection that takes an unlisted discriminant for a void arm
selectArmNoThrow(config, tag) ==
    LET armCodec == armMapGet(config, tag)
    IN  IF armCodec = NoCodec /\ ~armMapHas(config, tag) /\ config.hasDefault
        THEN [throw |-> FALSE, armCodec |-> config.defaultCodec]
        ELSE [throw |-> FALSE, armCodec |-> armCodec]

\* The arm selection shared by encode and decode: [throw, armCodec]
selectArm(config, tag) ==
    LET armCodec == armMapGet(config, tag)
    IN  IF armCodec = NoCodec /\ ~armMapHas(config, tag)
        THEN IF ~config.hasDefault
             THEN [throw |-> TRUE, armCodec |-> NoCodec]
             ELSE [throw |-> FALSE, armCodec |-> config.defaultCodec]
        ELSE [throw |-> FALSE, armCodec |-> armCodec]

\* taggedUnion.encode whose depth scope is left open by a throw
taggedUnionEncodeNoFinally(config, value, st) ==
    LET entered == enterDepth(st)
        tag == Get(value, "tag")
        r == Encode(config.switchOn, tag, entered)
        sel == selectArm(config, tag)
    IN  IF entered.err # "" THEN entered
        ELSE IF value.t \in {"undef"} THEN Throw(entered, "TypeError")
        ELSE IF r.err # "" THEN r
        ELSE IF sel.throw THEN Throw(r, "InvalidUnionDiscriminant")
        ELSE IF sel.armCodec # NoCodec
             THEN LET p == Encode(sel.armCodec, Get(value, "value"), r)
                  IN  IF p.err # "" THEN p ELSE leaveDepth(p)
             ELSE leaveDepth(r)

taggedUnionEncode(config, value, st) ==
    withDepth(LAMBDA s :
        IF value.t \in {"undef"} THEN Throw(s, "TypeError")
        ELSE
        LET tag == Get(value, "tag")
            r == Encode(config.switchOn, tag, s)
            sel == selectArm(config, tag)
        IN  IF r.err # "" THEN r
            ELSE IF sel.throw THEN Throw(r, "InvalidUnionDiscriminant")
            ELSE IF sel.armCodec # NoCodec
                 THEN Encode(sel.armCodec, Get(value, "value"), r)
                 ELSE r, st)

\* taggedUnion.decode that builds { tag, value } for every arm
taggedUnionDecodeAlwaysValue(config, st) ==
    withDepth(LAMBDA s :
        LET r == Decode(config.switchOn, s)
            tag == r.val
            sel == selectArm(config, tag)
            p == IF sel.armCodec # NoCodec THEN Decode(sel.armCodec, r) ELSE r
        IN  IF r.err # "" THEN r
            ELSE IF sel.throw THEN Throw(r, "InvalidUnionDiscriminant")
            ELSE IF p.err # "" THEN p
            ELSE Return(p, Obj(<<P("tag", tag),
                                 P("value", IF sel.armCodec # NoCodec
                                            THEN p.val ELSE Undefined)>>)), st)

taggedUnionDecode(config, st) ==
    withDepth(LAMBDA s :
        LET r == Decode(config.switchOn, s)
            tag == r.val
            sel == selectArm(config, tag)
        IN  IF r.err # "" THEN r
            ELSE IF sel.throw THEN Throw(r, "InvalidUnionDiscriminant")
            ELSE IF sel.armCodec # NoCodec
                 THEN LET p == Decode(sel.armCodec, r)
                      IN  IF p.err # "" THEN p
                          ELSE Return(p, Obj(<<P("tag", tag), P("value", p.val)>>))
                 ELSE Return(r, Obj(<<P("tag", tag)>>)), st)

(***************************************************************************)
(* fixedArray, varArray, option                                            *)
(***************************************************************************)
\* for (let i = 0; i < n; i++) codec.encode(writer, value[i])
EncodeItems(codec, items, i, n, st) ==
    IF i > n THEN st
    ELSE LET r == Encode(codec, items[i], st)
         IN  IF r.err # "" THEN r ELSE EncodeItems(codec, items, i + 1, n, r)

\* for (let i = 0; i < n; i++) result.push(codec.decode(reader))
DecodeItems(codec, result, i, n, st) ==
    IF i > n THEN Return(st, Arr(result))
    ELSE LET r == Decode(codec, st)
         IN  IF r.err # "" THEN r
             ELSE DecodeItems(codec, Append(result, r.val), i + 1, n, r)

\* value.length of an array; -1 stands for the undefined length of a non-array
Length(value) == IF value.t = "arr" THEN Len(value.items) ELSE -1

\* fixedArray.encode that writes a length prefix, as varArray does
fixedArrayEncodePrefixed(c, value, st) ==
    IF value.t = "undef" THEN Throw(st, "TypeError")
    ELSE IF Length(value) # c.n THEN Throw(st, "LengthMismatch")
    ELSE LET r == writeUint32(st, Num(c.n))
         IN  IF r.err # "" THEN r ELSE EncodeItems(c.codec, value.items, 1, c.n, r)

fixedArrayEncode(c, value, st) ==
    IF value.t = "undef" THEN Throw(st, "TypeError")
    ELSE IF Length(value) # c.n THEN Throw(st, "LengthMismatch")
    ELSE EncodeItems(c.codec, value.items, 1, c.n, st)

fixedArrayDecode(c, st) == DecodeItems(c.codec, <<>>, 1, c.n, st)

varArrayEncode(c, value, st) ==
    IF value.t # "arr" THEN Throw(st, "TypeError")
    ELSE IF Length(value) > c.max THEN Throw(st, "LengthExceedsMax")
    ELSE LET r == writeUint32(st, Num(Length(value)))
         IN  IF r.err # "" THEN r
             ELSE EncodeItems(c.codec, value.items, 1, Length(value), r)

\* varArray.decode that rejects a length equal to max
varArrayDecodeOffByOne(c, st) ==
    LET r == readUint32(st)
        len == r.val
    IN  IF r.err # "" THEN r
        ELSE IF len.hi > 0 \/ len.lo >= c.max THEN Throw(r, "LengthExceedsMax")
        ELSE DecodeItems(c.codec, <<>>, 1, len.lo, r)

varArrayDecode(c, st) ==
    LET r == readUint32(st)
        len == r.val
    IN  IF r.err # "" THEN r
        ELSE IF len.hi > 0 \/ len.lo > c.max THEN Throw(r, "LengthExceedsMax")
        ELSE DecodeItems(c.codec, <<>>, 1, len.lo, r)

optionEncode(c, value, st) ==
    IF value = Undefined
    THEN writeInt32(st, Num(0))
    ELSE LET r == writeInt32(st, Num(1))
         IN  IF r.err # "" THEN r ELSE Encode(c.codec, value, r)

\* option.decode with the presence flag read the wrong way round
optionDecodeSwapped(c, st) ==
    LET r == readBool(st)
    IN  IF r.err # "" THEN r
        ELSE IF ~r.val.b THEN Decode(c.codec, r)
        ELSE Return(r, Undefined)

optionDecode(c, st) ==
    LET r == readBool(st)
    IN  IF r.err # "" THEN r
        ELSE IF r.val.b THEN Decode(c.codec, r)
        ELSE Return(r, Undefined)

(***************************************************************************)
(* varOpaque                                                               *)
(***************************************************************************)
varOpaqueEncode(c, value, st) == writeVarOpaque(st, value, c.max)

\* varOpaque.decode that does not pass its maximum on to the Reader
varOpaqueDecodeNoMax(c, st) == readVarOpaque(st, NoMax)

varOpaqueDecode(c, st) == readVarOpaque(st, c.max)

(***************************************************************************)
(* The primitive codecs: a Writer / Reader method each                     *)
(***************************************************************************)
int32Encode(value, st) == writeInt32(st, value)
int32Decode(st) == readInt32(st)
uint32Encode(value, st) == writeUint32(st, value)
uint32Decode(st) == readUint32(st)

(***************************************************************************)
(* codec.encode(writer, value) and codec.decode(reader)                    *)
(***************************************************************************)
Encode(c, value, st) ==
    CASE c.kind = "int32" -> int32Encode(value, st)
      [] c.kind = "uint32" -> uint32Encode(value, st)
      [] c.kind = "struct" -> xdrStructEncode(c, value, st)
      [] c.kind = "enum" -> xdrEnumEncode(c, value, st)
      [] c.kind = "union" -> taggedUnionEncode(c, value, st)
      [] c.kind = "lazy" -> lazyEncode(c, value, st)
      [] c.kind = "fixedArray" -> fixedArrayEncode(c, value, st)
      [] c.kind = "varArray" -> varArrayEncode(c, value, st)
      [] c.kind = "option" -> optionEncode(c, value, st)
      [] c.kind = "varOpaque" -> varOpaqueEncode(c, value, st)

Decode(c, st) ==
    CASE c.kind = "int32" -> int32Decode(st)
      [] c.kind = "uint32" -> uint32Decode(st)
      [] c.kind = "struct" -> xdrStructDecode(c, st)
      [] c.kind = "enum" -> xdrEnumDecode(c, st)
      [] c.kind = "union" -> taggedUnionDecode(c, st)
      [] c.kind = "lazy" -> lazyDecode(c, st)
      [] c.kind = "fixedArray" -> fixedArrayDecode(c, st)
      [] c.kind = "varArray" -> varArrayDecode(c, st)
      [] c.kind = "option" -> optionDecode(c, st)
      [] c.kind = "varOpaque" -> varOpaqueDecode(c, st)

(***************************************************************************)
(* Base64.  A text is a sequence of character codes: 0..63 the characters  *)
(* of the standard alphabet, 64 the padding '=', 65 white space.           *)
(***************************************************************************)
RECURSIVE encodeBase64(_), DecodeQuads(_)

encodeBase64(bytes) ==
    IF Len(bytes) = 0 THEN <<>>
    ELSE IF Len(bytes) = 1
    THEN <<bytes[1] \div 4, (bytes[1] % 4) * 16, 64, 64>>
    ELSE IF Len(bytes) = 2
    THEN <<bytes[1] \div 4, (bytes[1] % 4) * 16 + bytes[2] \div 16,
           (bytes[2] % 16) * 4, 64>>
    ELSE <<bytes[1] \div 4, (bytes[1] % 4) * 16 + bytes[2] \div 16,
           (bytes[2] % 16) * 4 + bytes[3] \div 64, bytes[3] % 64>>
         \o encodeBase64(SubSeq(bytes, 4, Len(bytes)))

\* the bytes of a text without white space, four characters at a time
DecodeQuads(text) ==
    IF Len(text) < 4 THEN <<>>
    ELSE LET a == text[1]  b == text[2]  c == text[3]  d == text[4]
             b1 == a * 4 + b \div 16
             b2 == (b % 16) * 16 + c \div 4
             b3 == (c % 4) * 64 + d
         IN  (IF c = 64 THEN <<b1>> ELSE IF d = 64 THEN <<b1, b2>> ELSE <<b1, b2, b3>>)
             \o DecodeQuads(SubSeq(text, 5, Len(text)))

IsSpace(ch) == ch = 65

\* white space is stripped, then the text is decoded
decodeBase64(text) == DecodeQuads(SelectSeq(text, LAMBDA ch : ~IsSpace(ch)))

(***************************************************************************)
(* BaseCodec                                                               *)
(***************************************************************************)
\* toXdr: a new Writer, encode, toUint8Array.  On a throw no bytes are
\* returned (out is empty and err names the error).
toXdr(c, value, lim, cch, calls) ==
    LET writer == Session(<<>>, lim.depth, lim.cur, cch, calls)
        r == Encode(c, value, writer)
    IN  [r EXCEPT !.buf = IF r.err # "" THEN <<>> ELSE toUint8Array(r)]

\* fromXdr without the ensureEnd call
fromXdrNoEnd(c, input, lim, cch, calls) ==
    Decode(c, Session(input, lim.depth, lim.cur, cch, calls))

\* fromXdr: a new Reader over the input, decode, ensureEnd
fromXdr(c, input, lim, cch, calls) ==
    LET reader == Session(input, lim.depth, lim.cur, cch, calls)
        r == Decode(c, reader)
    IN  IF r.err # "" THEN r
        ELSE LET e == ensureEnd(r)
             IN  IF e.err # "" THEN e ELSE Return(e, r.val)

\* toBase64: encodeBase64(this.toXdr(value, limits)); buf holds the text
toBase64(c, value, lim, cch, calls) ==
    LET r == toXdr(c, value, lim, cch, calls)
    IN  IF r.err # "" THEN r ELSE [r EXCEPT !.buf = encodeBase64(r.buf)]

\* fromBase64: this.fromXdr(decodeBase64(input), limits)
fromBase64(c, text, lim, cch, calls) ==
    fromXdr(c, decodeBase64(text), lim, cch, calls)

(***************************************************************************)
(* The schemas under test (those of the repository's tests, and the shapes *)
(* the combinators allow)                                                  *)
(***************************************************************************)
Inner == xdrStruct(<<F("x", int32)>>)
Middle == xdrStruct(<<F("inner", Inner)>>)
Outer == xdrStruct(<<F("middle", Middle)>>)
Pair == xdrStruct(<<F("x", uint32), F("y", uint32)>>)
Foo == xdrStruct(<<F("x", int32), F("y", option(int32))>>)
Color == xdrEnum(<<M("Red", 0), M("Green", 1), M("Blue", 2)>>)
Flags == xdrEnum(<<M("A", 0), M("B", 5), M("C", -1)>>)
Dup == xdrEnum(<<M("A", 0), M("B", 0)>>)
AssetType == xdrEnum(<<M("Native", 0), M("CreditAlphanum4", 1)>>)
Asset == taggedUnion(AssetType,
                     <<Arm(<<Str("Native")>>, NoCodec),
                       Arm(<<Str("CreditAlphanum4")>>, Inner)>>, FALSE, NoCodec)
\* an enum-discriminated union that lists only some members of its enum
Partial == taggedUnion(Color,
                       <<Arm(<<Str("Red")>>, NoCodec),
                         Arm(<<Str("Green")>>, uint32)>>, FALSE, NoCodec)
Ext == taggedUnion(int32, <<Arm(<<Num(0)>>, NoCodec), Arm(<<Num(1)>>, uint32)>>,
                   FALSE, NoCodec)
MyUnion == taggedUnion(int32, <<Arm(<<Num(0)>>, NoCodec)>>, TRUE, uint32)
VoidDefault == taggedUnion(int32, <<Arm(<<Num(0)>>, uint32)>>, TRUE, NoCodec)
Multi == taggedUnion(int32, <<Arm(<<Num(1), Num(2)>>, uint32),
                              Arm(<<Num(0)>>, NoCodec)>>, FALSE, NoCodec)
Fixed2 == fixedArray(2, int32)
Var2 == varArray(2, Inner)
Opaque100 == varOpaque(100)
OpaqueAny == varOpaque(NoMax)
Opaque2 == varOpaque(2)
MaybeInt == option(int32)
OptOpt == option(option(int32))
Tree == xdrStruct(<<F("value", int32), F("children", varArray(1, lazy("Tree")))>>)

LazyIds == {"Tree"}
\* the codec a lazy codec's factory returns
LazyTarget(id) == CASE id = "Tree" -> Tree

CodecNames == {"Inner", "Middle", "Outer", "Pair", "Foo", "Color", "Flags", "Dup",
               "Asset", "Partial", "Ext", "MyUnion", "VoidDefault", "Multi",
               "Fixed2", "Var2", "MaybeInt", "OptOpt", "Tree",
               "Opaque100", "OpaqueAny", "Opaque2"}

Schema(name) ==
    CASE name = "Inner" -> Inner [] name = "Middle" -> Middle
      [] name = "Outer" -> Outer [] name = "Pair" -> Pair
      [] name = "Foo" -> Foo [] name = "Color" -> Color
      [] name = "Flags" -> Flags [] name = "Dup" -> Dup
      [] name = "Asset" -> Asset [] name = "Partial" -> Partial
      [] name = "Ext" -> Ext [] name = "MyUnion" -> MyUnion
      [] name = "VoidDefault" -> VoidDefault [] name = "Multi" -> Multi
      [] name = "Fixed2" -> Fixed2 [] name = "Var2" -> Var2
      [] name = "MaybeInt" -> MaybeInt [] name = "Opaque100" -> Opaque100
      [] name = "OpaqueAny" -> OpaqueAny [] name = "Opaque2" -> Opaque2
      [] name = "OptOpt" -> OptOpt [] name = "Tree" -> Tree

(***************************************************************************)
(* The inputs of the calls                                                 *)
(***************************************************************************)
\* how often a value may pass through a lazy codec
LazyFuel == 2
Int32Samples == {Num(-1), Num(2)}
Uint32Samples == {Num(0), Num(3)}
\* the words hand-made inputs are built from
WordSamples == {Num(-1), Num(0), Num(1), Num(2), Num(3)}
ByteSamples == {ByteArray(<<>>), ByteArray(<<7>>), ByteArray(<<1, 2, 3, 4, 5>>)}

RECURSIVE TypedValues(_, _), StructValues(_, _, _)

SeqsOf(S, n) == IF n = 0 THEN {<<>>} ELSE [1..n -> S]

ListedTags(config) == UNION {Range(config.arms[i].tags) : i \in 1..Len(config.arms)}

\* the payload codecs of the arms that list the tag
ListingCodecs(config, tag) ==
    {config.arms[i].codec : i \in {j \in 1..Len(config.arms) :
                                      tag \in Range(config.arms[j].tags)}}

\* the values of a codec's value type
TypedValues(c, fuel) ==
    CASE c.kind = "int32" -> Int32Samples
      [] c.kind = "uint32" -> Uint32Samples
      [] c.kind = "struct" -> {Obj(props) : props \in StructValues(c.fields, 1, fuel)}
      [] c.kind = "enum" -> {Str(c.members[i].name) : i \in 1..Len(c.members)}
      [] c.kind = "union" ->
            LET tags == ListedTags(c) \cup
                        (IF c.hasDefault THEN TypedValues(c.switchOn, fuel) ELSE {})
                arm(tag) == IF tag \in ListedTags(c)
                            THEN CHOOSE a \in ListingCodecs(c, tag) : TRUE
                            ELSE c.defaultCodec
            IN  UNION {IF arm(tag) = NoCodec
                       THEN {Obj(<<P("tag", tag)>>)}
                       ELSE {Obj(<<P("tag", tag), P("value", v)>>) :
                               v \in TypedValues(arm(tag), fuel)} : tag \in tags}
      [] c.kind = "lazy" -> IF fuel = 0 THEN {}
                            ELSE TypedValues(LazyTarget(c.id), fuel - 1)
      [] c.kind = "fixedArray" ->
            {Arr(items) : items \in SeqsOf(TypedValues(c.codec, fuel), c.n)}
      [] c.kind = "varArray" ->
            UNION {{Arr(items) : items \in SeqsOf(TypedValues(c.codec, fuel), n)} :
                     n \in 0..c.max}
      [] c.kind = "option" -> {Undefined} \cup TypedValues(c.codec, fuel)
      [] c.kind = "varOpaque" ->
            {v \in ByteSamples : c.max = NoMax \/ Len(v.b) <= c.max}

StructValues(fields, i, fuel) ==
    IF i > Len(fields) THEN {<<>>}
    ELSE {<<P(fields[i].name, v)>> \o rest :
            v \in TypedValues(fields[i].codec, fuel),
            rest \in StructValues(fields, i + 1, fuel)}

Reverse(seq) == [i \in 1..Len(seq) |-> seq[Len(seq) + 1 - i]]

RECURSIVE UntypedValues(_, _)
\* values the type does not describe, which a caller can still pass
UntypedValues(c, fuel) ==
    CASE c.kind = "struct" ->
            UNION {{Obj(Reverse(v.props)),
                    Obj(<<P("zz", Num(7))>> \o v.props),
                    Obj(SubSeq(v.props, 1, Len(v.props) - 1))} :
                     v \in TypedValues(c, fuel)}
            \cup {Obj(<<P(c.fields[1].name, u)>> \o Tail(v.props)) :
                    u \in UntypedValues(c.fields[1].codec, fuel),
                    v \in TypedValues(c, fuel)}
      [] c.kind = "enum" -> {Str("Purple"), Str("toString"), Num(0)}
      [] c.kind = "union" ->
            UNION {{Obj(<<P("tag", Get(v, "tag"))>>),
                    Obj(<<P("value", Num(3)), P("tag", Get(v, "tag"))>>)} :
                     v \in TypedValues(c, fuel)}
            \cup {Obj(<<P("tag", t)>>) :
                    t \in TypedValues(c.switchOn, fuel) \cup {Str("Purple")}}
            \cup {Obj(<<P("tag", t), P("value", Num(3))>>) :
                    t \in TypedValues(c.switchOn, fuel)}
      [] c.kind = "varOpaque" ->
            {v \in ByteSamples : c.max # NoMax /\ Len(v.b) > c.max}
      [] c.kind \in {"fixedArray", "varArray"} ->
            UNION {{Arr(Tail(v.items)) : v \in {w \in TypedValues(c, fuel) : Len(w.items) > 0}},
                   {Arr(<<Head(v.items)>> \o v.items) :
                      v \in {w \in TypedValues(c, fuel) : Len(w.items) > 0}},
                   {Arr(v.items \o v.items) : v \in TypedValues(c, fuel)}}
      [] OTHER -> {}

SampleValues(name) ==
    TypedValues(Schema(name), LazyFuel) \cup UntypedValues(Schema(name), LazyFuel)

RECURSIVE Flatten(_)
\* the bytes of a sequence of words
Flatten(words) ==
    IF words = <<>> THEN <<>> ELSE Bytes32(Head(words)) \o Flatten(Tail(words))

CraftedInputs == UNION {{Flatten(w) : w \in SeqsOf(WordSamples, n)} : n \in 0..MaxWords}

\* the encodings of the values of the type, with a byte more and a byte less
EncodedInputs(name) ==
    LET enc == {toXdr(Schema(name), v, [depth |-> DEFAULT_DEPTH, cur |-> 0],
                      {}, [i \in LazyIds |-> 0]).buf :
                  v \in TypedValues(Schema(name), LazyFuel)}
    IN  enc \cup {b \o <<255>> : b \in enc}
        \cup {SubSeq(b, 1, Len(b) - 1) : b \in {x \in enc : Len(x) > 0}}

\* hand-made inputs, the encodings of the values of the type, and those
\* encodings cut short by a byte or followed by one more byte
SampleInputs(name) ==
    CraftedInputs \cup EncodedInputs(name)

\* Base64 texts: those inputs as encodeBase64 writes them, and the same with
\* white space inside
SampleTexts(name) ==
    UNION {{encodeBase64(b),
            <<65>> \o SubSeq(encodeBase64(b), 1, 2) \o <<65>>
                   \o SubSeq(encodeBase64(b), 3, Len(encodeBase64(b)))} :
             b \in EncodedInputs(name)}

(***************************************************************************)
(* The state machine: a caller makes top-level calls on the shared codecs, *)
(* one at a time, passing either no limits (the defaults) or one of the    *)
(* Limits objects it keeps across its calls, one for each depth ceiling.   *)
(*   limits        the current-depth counter of the caller's Limits object *)
(*                 of each depth ceiling                                   *)
(*   cached        the lazy codecs whose cell holds a resolved codec       *)
(*   factoryCalls  how often each lazy codec's factory has run             *)
(*   lazyUsed      the lazy codecs whose encode or decode has run          *)
(*   last          the call just made and its outcome ("idle" before the   *)
(*                 first call and once the caller has taken the outcome)   *)
(***************************************************************************)
DEFAULT_LIMITS == [depth |-> DEFAULT_DEPTH, cur |-> 0]

\* the depth ceilings of the caller's Limits objects
Ceilings == 0..MaxCeiling
\* a call made without a limits argument
NoLimits == -1
\* the Limits a call runs under
LimitsOf(d) == IF d = NoLimits THEN DEFAULT_LIMITS ELSE [depth |-> d, cur |-> limits[d]]

Idle == [op |-> "idle", name |-> "", value |-> Undefined, input |-> <<>>,
         shared |-> FALSE, depth |-> 0, pre |-> 0, cur |-> 0, err |-> "",
         out |-> <<>>, val |-> Undefined, pos |-> 0, text |-> <<>>]

\* no pollTransaction call made yet
NoPoll == [pc |-> "idle", set |-> FALSE, attempts |-> 0, i |-> 0, issued |-> 0,
           pending |-> 0, responses |-> <<>>, slept |-> <<>>, result |-> "",
           err |-> ""]

\* no call in progress
NoCall == [op |-> "idle"]

Init ==
    /\ asm = NoCall
    /\ memo = NoCall
    /\ fed = NoCall
    /\ b32 = NoCall
    /\ limits = [d \in Ceilings |-> 0]
    /\ cached = {}
    /\ factoryCalls = [i \in LazyIds |-> 0]
    /\ lazyUsed = {}
    /\ last = Idle
    /\ nextId = 1
    /\ sent = <<>>
    /\ inflight = {}
    /\ rejectedIds = {}
    /\ poll = NoPoll

\* what a call leaves behind: the counter of the Limits it ran under and
\* the cells of the lazy codecs
Leave(d, r) ==
    /\ limits' = IF d = NoLimits THEN limits ELSE [limits EXCEPT ![d] = r.cur]
    /\ cached' = r.cached
    /\ factoryCalls' = r.calls
    /\ lazyUsed' = lazyUsed \cup r.used
    /\ UNCHANGED <<rpcVars, callVars>>

\* codec.toXdr(value) or codec.toXdr(value, limits)
ToXdr ==
    /\ last.op = "idle"
    /\ \E name \in CodecNames, d \in Ceilings \cup {NoLimits} :
         \E value \in SampleValues(name) :
           LET lim == LimitsOf(d)
               r == toXdr(Schema(name), value, lim, cached, factoryCalls)
           IN  /\ Leave(d, r)
               /\ last' = [op |-> "toXdr", name |-> name, value |-> value,
                           input |-> <<>>, shared |-> d # NoLimits,
                           depth |-> lim.depth, pre |-> lim.cur, cur |-> r.cur,
                           err |-> r.err, out |-> r.buf, val |-> Undefined,
                           pos |-> 0, text |-> <<>>]

\* codec.fromXdr(input) or codec.fromXdr(input, limits)
FromXdr ==
    /\ last.op = "idle"
    /\ \E name \in CodecNames, d \in Ceilings \cup {NoLimits} :
         \E input \in SampleInputs(name) :
           LET lim == LimitsOf(d)
               r == fromXdr(Schema(name), input, lim, cached, factoryCalls)
           IN  /\ Leave(d, r)
               /\ last' = [op |-> "fromXdr", name |-> name, value |-> Undefined,
                           input |-> input, shared |-> d # NoLimits,
                           depth |-> lim.depth, pre |-> lim.cur, cur |-> r.cur,
                           err |-> r.err, out |-> <<>>, val |-> r.val,
                           pos |-> r.pos, text |-> <<>>]

\* codec.toBase64(value) or codec.toBase64(value, limits)
ToBase64 ==
    /\ last.op = "idle"
    /\ \E name \in CodecNames, d \in Ceilings \cup {NoLimits} :
         \E value \in TypedValues(Schema(name), LazyFuel) :
           LET lim == LimitsOf(d)
               r == toBase64(Schema(name), value, lim, cached, factoryCalls)
           IN  /\ Leave(d, r)
               /\ last' = [op |-> "toBase64", name |-> name, value |-> value,
                           input |-> <<>>, shared |-> d # NoLimits,
                           depth |-> lim.depth, pre |-> lim.cur, cur |-> r.cur,
                           err |-> r.err, out |-> <<>>, val |-> Undefined,
                           pos |-> 0, text |-> IF r.err # "" THEN <<>> ELSE r.buf]

\* codec.fromBase64(text) or codec.fromBase64(text, limits); input records
\* the bytes the text stands for
FromBase64 ==
    /\ last.op = "idle"
    /\ \E name \in CodecNames, d \in Ceilings \cup {NoLimits} :
         \E text \in SampleTexts(name) :
           LET lim == LimitsOf(d)
               r == fromBase64(Schema(name), text, lim, cached, factoryCalls)
           IN  /\ Leave(d, r)
               /\ last' = [op |-> "fromBase64", name |-> name, value |-> Undefined,
                           input |-> r.buf, shared |-> d # NoLimits,
                           depth |-> lim.depth, pre |-> lim.cur, cur |-> r.cur,
                           err |-> r.err, out |-> <<>>, val |-> r.val,
                           pos |-> r.pos, text |-> text]

\* the caller takes the outcome (the value, the bytes or the error)
TakeOutcome ==
    /\ last.op # "idle"
    /\ last' = Idle
    /\ UNCHANGED <<limits, cached, factoryCalls, lazyUsed>>
    /\ UNCHANGED <<rpcVars, callVars>>

Next == ToXdr \/ FromXdr \/ ToBase64 \/ FromBase64 \/ TakeOutcome

Spec == Init /\ [][Next]_vars

(***************************************************************************)
(* The JSON-RPC client.  Calls are asynchronous: a call runs up to its     *)
(* first await in one step, and goes on when what it awaits settles, so    *)
(* calls overlap.                                                          *)
(*   nextId       the module-level request id counter                      *)
(*   sent         the requests handed to fetch, in order: their id and     *)
(*                who made the call ("poll" or "direct")                   *)
(*   inflight     the ids of the calls awaiting their response             *)
(*   rejectedIds  the ids of the calls that rejected                       *)
(*   poll         the pollTransaction call: where it stands (pc), its      *)
(*                attempts and loop index i, the getTransaction calls it   *)
(*                issued, the one pending, the responses it got, the       *)
(*                arguments it gave sleepStrategy, and its outcome         *)
(***************************************************************************)
GetTransactionStatus == {"SUCCESS", "NOT_FOUND", "FAILED"}
\* the ways a jsonRpcPost call rejects: fetch rejects, the HTTP status is
\* not ok, res.json() rejects, the body holds an error member
Failures == {"network", "http", "parse", "rpcerror"}
Responses == GetTransactionStatus \cup Failures

\* id: nextId++ without the increment
jsonRpcPostSendStale(n) == [id |-> n, nextId |-> n]

\* jsonRpcPost up to its first await: the body takes id: nextId++ and is
\* handed to fetch
jsonRpcPostSend(n) == [id |-> n, nextId |-> n + 1]

\* jsonRpcPost after the await: it rejects or returns json.result
jsonRpcPostSettle(response) ==
    IF response \in Failures
    THEN [rejected |-> TRUE, error |-> response, result |-> ""]
    ELSE [rejected |-> FALSE, error |-> "", result |-> response]

Send(by) ==
    LET s == jsonRpcPostSend(nextId)
    IN  /\ nextId' = s.nextId
        /\ sent' = Append(sent, [id |-> s.id, by |-> by])
        /\ inflight' = inflight \cup {s.id}

\* the options of a pollTransaction call
PollOptions ==
    {[set |-> FALSE, attempts |-> 0]}
    \cup {[set |-> TRUE, attempts |-> a] : a \in -1..MaxAttempts}

\* a loop test that lets one more iteration through
pollContinuesOnceMore(i, attempts) == i <= attempts

\* the loop test i < attempts
pollContinues(i, attempts) == i < attempts

\* some caller calls jsonRpcPost
DirectPost ==
    /\ Len(sent) < MaxSent
    /\ Cardinality({k \in 1..Len(sent) : sent[k].by = "direct"}) < MaxDirect
    /\ Send("direct")
    /\ UNCHANGED <<rejectedIds, poll>>
    /\ UNCHANGED <<codecVars, callVars>>

\* the response of such a call arrives
DirectSettle ==
    /\ \E id \in inflight \ {poll.pending} : \E response \in Responses :
          /\ inflight' = inflight \ {id}
          /\ rejectedIds' = IF jsonRpcPostSettle(response).rejected
                             THEN rejectedIds \cup {id} ELSE rejectedIds
    /\ UNCHANGED <<nextId, sent, poll>>
    /\ UNCHANGED <<codecVars, callVars>>

\* pollTransaction(hash, opts) is called
PollStart ==
    /\ poll.pc = "idle"
    /\ \E opts \in PollOptions :
          poll' = [poll EXCEPT !.pc = "loop", !.set = opts.set,
                               !.attempts = IF opts.set THEN opts.attempts
                                            ELSE DEFAULT_ATTEMPTS]
    /\ UNCHANGED <<nextId, sent, inflight, rejectedIds>>
    /\ UNCHANGED <<codecVars, callVars>>

\* the loop body starts: this.getTransaction(hash)
PollCall ==
    /\ poll.pc = "loop"
    /\ pollContinues(poll.i, poll.attempts)
    /\ Send("poll")
    /\ poll' = [poll EXCEPT !.pc = "await", !.pending = nextId, !.issued = @ + 1]
    /\ UNCHANGED rejectedIds
    /\ UNCHANGED <<codecVars, callVars>>

\* a wait after every attempt, the last included
pollSleepsAlways(i, attempts) == i < attempts

\* if (i < attempts - 1): a wait follows the attempt
pollSleeps(i, attempts) == i < attempts - 1

\* a poll that takes a rejected call for a NOT_FOUND response
pollOnSettledRetrying(p, o) ==
    IF ~o.rejected /\ o.result # "NOT_FOUND"
    THEN [p EXCEPT !.pc = "returned", !.result = o.result]
    ELSE IF pollSleeps(p.i, p.attempts)
    THEN [p EXCEPT !.pc = "sleeping", !.slept = Append(@, p.i)]
    ELSE [p EXCEPT !.pc = "loop", !.i = @ + 1]

\* the loop body after await this.getTransaction(hash): a rejection leaves
\* the function, a status other than NOT_FOUND returns, else sleep
\* (sleepStrategy(i)) unless the attempt was the last
pollOnSettled(p, o) ==
    IF o.rejected
    THEN [p EXCEPT !.pc = "rejected", !.err = o.error]
    ELSE IF o.result # "NOT_FOUND"
    THEN [p EXCEPT !.pc = "returned", !.result = o.result]
    ELSE IF pollSleeps(p.i, p.attempts)
    THEN [p EXCEPT !.pc = "sleeping", !.slept = Append(@, p.i)]
    ELSE [p EXCEPT !.pc = "loop", !.i = @ + 1]

\* the getTransaction call settles
PollSettle ==
    /\ poll.pc = "await"
    /\ \E response \in Responses :
          LET o == jsonRpcPostSettle(response)
              got == [poll EXCEPT !.pending = 0, !.responses = Append(@, response)]
          IN  /\ rejectedIds' = IF o.rejected THEN rejectedIds \cup {poll.pending}
                                 ELSE rejectedIds
              /\ poll' = pollOnSettled(got, o)
    /\ inflight' = inflight \ {poll.pending}
    /\ UNCHANGED <<nextId, sent>>
    /\ UNCHANGED <<codecVars, callVars>>

\* the timer of sleep fires
PollWake ==
    /\ poll.pc = "sleeping"
    /\ poll' = [poll EXCEPT !.pc = "loop", !.i = @ + 1]
    /\ UNCHANGED <<nextId, sent, inflight, rejectedIds>>
    /\ UNCHANGED <<codecVars, callVars>>

\* the loop is over: throw new RpcError(-1, 'Transaction ... not found after
\* ... attempts')
PollExhausted ==
    /\ poll.pc = "loop"
    /\ ~pollContinues(poll.i, poll.attempts)
    /\ poll' = [poll EXCEPT !.pc = "rejected", !.err = "RpcError: not found"]
    /\ UNCHANGED <<nextId, sent, inflight, rejectedIds>>
    /\ UNCHANGED <<codecVars, callVars>>

RpcNext ==
    \/ DirectPost \/ DirectSettle
    \/ PollStart \/ PollCall \/ PollSettle \/ PollWake \/ PollExhausted

RpcSpec == Init /\ [][RpcNext]_vars

\* the poll goes on when it can: the loop runs, a getTransaction call
\* settles (fetch ends with a response or an error), a timer fires
RpcFairSpec ==
    /\ RpcSpec
    /\ WF_vars(PollCall) /\ WF_vars(PollSettle)
    /\ WF_vars(PollWake) /\ WF_vars(PollExhausted)

(***************************************************************************)
(* assembleTransaction.  A value of an XDR union is its arm and what the   *)
(* arm holds (a void arm is the bare string of its name); a JavaScript     *)
(* number is a NaN flag and an integer; a string is the sequence of its    *)
(* characters.                                                             *)
(*   asm   the assembleTransaction call: its arguments, the envelope       *)
(*         object after the call, and the envelope returned or the error   *)
(*         thrown                                                          *)
(***************************************************************************)
\* longest operation list of an envelope
MaxOps == 2
\* longest authorization list
MaxAuth == 2

ArmOf(name, v) == [arm |-> name, void |-> FALSE, v |-> v]
VoidArm(name) == [arm |-> name, void |-> TRUE, v |-> <<>>]
Number(n) == [nan |-> FALSE, n |-> n]
NaN == [nan |-> TRUE, n |-> 0]

\* is(value, key): the union value holds the arm key
is(value, key) == ~value.void /\ value.arm = key

\* Object.keys of a union value that is not a string
ObjectKeys(body) == {body.arm}

SOROBAN_OPS == {"InvokeHostFunction", "ExtendFootprintTtl", "RestoreFootprint"}

isSorobanOp(op) ==
    IF op.body.void THEN op.body.arm \in SOROBAN_OPS
    ELSE \E key \in ObjectKeys(op.body) : key \in SOROBAN_OPS

Digits == <<"0", "1", "2", "3", "4", "5", "6", "7", "8", "9">>
IsDigit(c) == \E d \in 1..Len(Digits) : Digits[d] = c
DigitValue(c) == (CHOOSE d \in 1..Len(Digits) : Digits[d] = c) - 1

RECURSIVE DigitPrefix(_, _)
\* the value of the longest run of digits str starts with, after acc
DigitPrefix(str, acc) ==
    IF str = <<>> \/ ~IsDigit(Head(str)) THEN acc
    ELSE DigitPrefix(Tail(str), 10 * acc + DigitValue(Head(str)))

RECURSIVE SkipWhite(_)
SkipWhite(str) ==
    IF str # <<>> /\ Head(str) = " " THEN SkipWhite(Tail(str)) ELSE str

\* parseInt(str, 10): white space, a sign, then the digits up to the first
\* other character; NaN without a digit
parseInt(str) ==
    LET t == SkipWhite(str)
        signed == t # <<>> /\ Head(t) \in {"-", "+"}
        u == IF signed THEN Tail(t) ELSE t
    IN  IF u = <<>> \/ ~IsDigit(Head(u)) THEN NaN
        ELSE IF signed /\ Head(t) = "-" THEN Number(0 - DigitPrefix(u, 0))
        ELSE Number(DigitPrefix(u, 0))

\* a + b on numbers
Plus(a, b) == IF a.nan \/ b.nan THEN NaN ELSE Number(a.n + b.n)

\* the branch that takes the simulation's auth, taken whatever the
\* operation carries
newBodyAlways(origOp, simulation) ==
    IF is(origOp.body, "InvokeHostFunction")
    THEN IF Len(simulation.results) > 0
            /\ Len(simulation.results[1].auth) # 0
         THEN ArmOf("InvokeHostFunction",
                  [hostFunction |-> origOp.body.v.hostFunction,
                   auth |-> simulation.results[1].auth])
         ELSE origOp.body
    ELSE origOp.body

\* let newBody: the operation body, with the simulation's auth when the
\* InvokeHostFunction carries none
newBody(origOp, simulation) ==
    IF is(origOp.body, "InvokeHostFunction")
    THEN IF Len(origOp.body.v.auth) = 0
            /\ Len(simulation.results) > 0
            /\ Len(simulation.results[1].auth) # 0
         THEN ArmOf("InvokeHostFunction",
                  [hostFunction |-> origOp.body.v.hostFunction,
                   auth |-> simulation.results[1].auth])
         ELSE origOp.body
    ELSE origOp.body

Thrown(envelope, err) == [err |-> err, envelope |-> envelope, result |-> <<>>]

\* a check of the operation list that lets any single operation through
assembleTransactionAnyOp(envelope, simulation) ==
    IF ~is(envelope, "Tx") THEN Thrown(envelope, "RpcError: requires a v1 envelope")
    ELSE IF Len(envelope.v.tx.operations) # 1
    THEN Thrown(envelope, "RpcError: requires exactly one Soroban operation")
    ELSE LET origTx == envelope.v.tx
             origOp == origTx.operations[1]
         IN  [err |-> "", envelope |-> envelope,
              result |-> ArmOf("Tx",
                [tx |-> [origTx EXCEPT
                           !.fee = Plus(origTx.fee, parseInt(simulation.minResourceFee)),
                           !.operations = <<[sourceAccount |-> origOp.sourceAccount,
                                             body |-> newBody(origOp, simulation)]>>,
                           !.ext = ArmOf("1", simulation.transactionData)],
                 signatures |-> <<>>])]

\* a result that keeps the signatures of the input
assembleTransactionSigned(envelope, simulation) ==
    LET r == assembleTransactionAnyOp(envelope, simulation)
    IN  IF r.err = "" /\ isSorobanOp(envelope.v.tx.operations[1])
        THEN [r EXCEPT !.result.v.signatures = envelope.v.signatures]
        ELSE IF r.err = ""
        THEN Thrown(envelope, "RpcError: requires exactly one Soroban operation")
        ELSE r

assembleTransaction(envelope, simulation) ==
    IF ~is(envelope, "Tx") THEN Thrown(envelope, "RpcError: requires a v1 envelope")
    ELSE IF Len(envelope.v.tx.operations) # 1
            \/ ~isSorobanOp(envelope.v.tx.operations[1])
    THEN Thrown(envelope, "RpcError: requires exactly one Soroban operation")
    ELSE LET origTx == envelope.v.tx
             origOp == origTx.operations[1]
             newFee == Plus(origTx.fee, parseInt(simulation.minResourceFee))
             newTx == [sourceAccount |-> origTx.sourceAccount,
                       fee |-> newFee,
                       seqNum |-> origTx.seqNum,
                       cond |-> origTx.cond,
                       memo |-> origTx.memo,
                       operations |-> <<[sourceAccount |-> origOp.sourceAccount,
                                         body |-> newBody(origOp, simulation)]>>,
                       ext |-> ArmOf("1", simulation.transactionData)]
         IN  [err |-> "", envelope |-> envelope,
              result |-> ArmOf("Tx", [tx |-> newTx, signatures |-> <<>>])]

\* the sequences over S of at most n elements
RECURSIVE SeqsUpTo(_, _)
SeqsUpTo(S, n) ==
    IF n = 0 THEN {<<>>}
    ELSE LET shorter == SeqsUpTo(S, n - 1)
         IN  shorter \cup {Append(q, x) : q \in shorter, x \in S}

AuthEntries == {"entry"}
AuthLists == SeqsUpTo(AuthEntries, MaxAuth)

BodySamples ==
    {ArmOf("InvokeHostFunction", [hostFunction |-> "hello", auth |-> a]) : a \in AuthLists}
    \cup {ArmOf("ExtendFootprintTtl", [extendTo |-> "1000"]),
          ArmOf("RestoreFootprint", [ext |-> "0"]),
          ArmOf("Payment", [destination |-> "GDEST", amount |-> "1000"]),
          VoidArm("Inflation")}

\* the parts of an envelope the operation list does not decide: the
\* operations' own source account, the memo and the signatures
Frames ==
    {[opSource |-> "null", memo |-> VoidArm("None"), signatures |-> <<>>],
     [opSource |-> "GOPSRC", memo |-> ArmOf("Text", <<"h", "i">>), signatures |-> <<"sig">>]}

TxOf(frame, bodies) ==
    [sourceAccount |-> "GSRC", fee |-> Number(100), seqNum |-> "1",
     cond |-> VoidArm("None"), memo |-> frame.memo,
     operations |-> [k \in 1..Len(bodies) |->
                        [sourceAccount |-> frame.opSource, body |-> bodies[k]]],
     ext |-> VoidArm("0")]

EnvelopeSamples ==
    {ArmOf(kind, [tx |-> TxOf(frame, bodies), signatures |-> frame.signatures]) :
        kind \in {"Tx"}, frame \in Frames, bodies \in SeqsUpTo(BodySamples, MaxOps)}
    \cup {ArmOf(kind, [tx |-> TxOf(frame, <<b>>), signatures |-> frame.signatures]) :
        kind \in {"TxV0", "TxFeeBump"}, frame \in Frames,
        b \in {ArmOf("RestoreFootprint", [ext |-> "0"])}}

FeeStrings == {<<"5", "0">>, <<"0">>, <<"7">>, <<>>, <<"1", "e", "3">>, <<"-", "1">>}

SimulationSamples ==
    {[minResourceFee |-> f, transactionData |-> d, results |-> r] :
        f \in FeeStrings, d \in {"dataA", "dataB"},
        r \in {<<>>} \cup {<<[auth |-> a]>> : a \in AuthLists}
                     \cup {<<[auth |-> a], [auth |-> <<>>]>> : a \in AuthLists}}

\* assembleTransaction(envelope, simulation) is called
Assemble ==
    /\ asm.op = "idle"
    /\ \E envelope \in EnvelopeSamples, simulation \in SimulationSamples :
          LET r == assembleTransaction(envelope, simulation)
          IN  asm' = [op |-> "assembleTransaction", envelope |-> envelope,
                      simulation |-> simulation, after |-> r.envelope,
                      result |-> r.result, err |-> r.err]
    /\ UNCHANGED <<codecVars, rpcVars, memo, fed, b32>>

\* the caller has the envelope or has caught the error
AssembleDone ==
    /\ asm.op # "idle"
    /\ asm' = NoCall
    /\ UNCHANGED <<codecVars, rpcVars, memo, fed, b32>>

AssembleNext == Assemble \/ AssembleDone

AssembleSpec == Init /\ [][AssembleNext]_vars

(***************************************************************************)
(* checkMemoRequired.  The function awaits the loader inside its loop, so  *)
(* a call is a sequence of steps: one per operation looked at, one per     *)
(* answer of the loader.                                                   *)
(*   memo   the checkMemoRequired call: its arguments, the account data    *)
(*          the loader answers from, the loop index i, the set checked,    *)
(*          the loader calls made so far (loads) and the outcome           *)
(***************************************************************************)
\* longest operation list given to checkMemoRequired
MaxMemoOps == 3

\* an optional string: absent (undefined), or its characters
NoString == [defined |-> FALSE, chars |-> <<>>]
Chars(c) == [defined |-> TRUE, chars |-> c]

\* a set without accountMerge
MemoOperationsNoMerge ==
    {"payment", "pathPaymentStrictReceive", "pathPaymentStrictSend"}

MEMO_REQUIRED_OPERATIONS ==
    {"payment", "pathPaymentStrictReceive", "pathPaymentStrictSend", "accountMerge"}

MEMO_REQUIRED_VALUE == "MQ=="

\* !dest: undefined or the empty string
Falsy(dest) == ~dest.defined \/ dest.chars = <<>>

startsWith(dest, c) == dest.chars # <<>> /\ Head(dest.chars) = c

\* a set that never holds anything
checkedHasNothing(checked, dest) == FALSE

\* checked.has(dest)
checkedHas(checked, dest) == dest \in checked

\* the loop body up to the loader call: TRUE when the operation is passed
\* over
Skipped(op, checked) ==
    \/ op.type \notin MEMO_REQUIRED_OPERATIONS
    \/ Falsy(op.destination)
    \/ startsWith(op.destination, "M")
    \/ checkedHas(checked, op.destination.chars)

DEST_A == <<"G", "A">>
DEST_B == <<"G", "B">>
MUXED == <<"M", "A">>

\* what the loader answers for an account: null, a record without the
\* entry, a record with config.memo_required 'MQ==' or 'MA==', or a
\* rejection
AccountAnswers == {"null", "no entry", "MQ==", "MA==", "rejects"}

Ledgers ==
    {[d \in {DEST_A, DEST_B} |-> IF d = DEST_A THEN a ELSE b] :
        a \in AccountAnswers, b \in {"no entry", "MQ=="}}

MemoOperationSamples ==
    {[type |-> "payment", destination |-> d] :
        d \in {Chars(DEST_A), Chars(DEST_B), Chars(MUXED), Chars(<<>>), NoString}}
    \cup {[type |-> "pathPaymentStrictReceive", destination |-> Chars(DEST_A)],
          [type |-> "pathPaymentStrictSend", destination |-> Chars(DEST_B)],
          [type |-> "accountMerge", destination |-> Chars(DEST_B)],
          [type |-> "createAccount", destination |-> Chars(DEST_A)]}

\* checkMemoRequired(memoType, operations, loadAccountData) is called
MemoStart ==
    /\ memo.op = "idle"
    /\ \E memoType \in {"none", "text"},
          operations \in SeqsUpTo(MemoOperationSamples, MaxMemoOps),
          ledger \in Ledgers :
          /\ memoType # "none" => ledger = [d \in {DEST_A, DEST_B} |-> "MQ=="]
          /\ memo' = [op |-> "checkMemoRequired",
                      pc |-> IF memoType # "none" THEN "resolved" ELSE "loop",
                      memoType |-> memoType, operations |-> operations,
                      ledger |-> ledger, i |-> 0, checked |-> {},
                      loads |-> <<>>, err |-> "", accountId |-> <<>>,
                      operationIndex |-> 0]
    /\ UNCHANGED <<codecVars, rpcVars, asm, fed, b32>>

\* one turn of the loop up to its await: the operation is passed over, or
\* its destination is added to checked and the loader is called
MemoLook ==
    /\ memo.op = "checkMemoRequired" /\ memo.pc = "loop"
    /\ memo.i < Len(memo.operations)
    /\ LET op == memo.operations[memo.i + 1]
       IN  memo' = IF Skipped(op, memo.checked)
                   THEN [memo EXCEPT !.i = @ + 1]
                   ELSE [memo EXCEPT !.pc = "await",
                                     !.checked = @ \cup {op.destination.chars},
                                     !.loads = Append(@, op.destination.chars)]
    /\ UNCHANGED <<codecVars, rpcVars, asm, fed, b32>>

\* the loader settles
MemoLoaded ==
    /\ memo.op = "checkMemoRequired" /\ memo.pc = "await"
    /\ LET dest == memo.operations[memo.i + 1].destination.chars
           data == memo.ledger[dest]
       IN  memo' = IF data = "rejects"
                   THEN [memo EXCEPT !.pc = "rejected", !.err = "loader error"]
                   ELSE IF data = "null"
                   THEN [memo EXCEPT !.pc = "loop", !.i = @ + 1]
                   ELSE IF data = MEMO_REQUIRED_VALUE
                   THEN [memo EXCEPT !.pc = "rejected",
                                     !.err = "AccountRequiresMemoError",
                                     !.accountId = dest,
                                     !.operationIndex = memo.i]
                   ELSE [memo EXCEPT !.pc = "loop", !.i = @ + 1]
    /\ UNCHANGED <<codecVars, rpcVars, asm, fed, b32>>

\* the loop is over
MemoEnd ==
    /\ memo.op = "checkMemoRequired" /\ memo.pc = "loop"
    /\ ~(memo.i < Len(memo.operations))
    /\ memo' = [memo EXCEPT !.pc = "resolved"]
    /\ UNCHANGED <<codecVars, rpcVars, asm, fed, b32>>

\* the caller has the outcome
MemoDone ==
    /\ memo.op = "checkMemoRequired" /\ memo.pc \in {"resolved", "rejected"}
    /\ memo' = NoCall
    /\ UNCHANGED <<codecVars, rpcVars, asm, fed, b32>>

MemoNext == MemoStart \/ MemoLook \/ MemoLoaded \/ MemoEnd \/ MemoDone

MemoSpec == Init /\ [][MemoNext]_vars

(***************************************************************************)
(* resolveFederationAddress.  The call awaits the stellar.toml of the      *)
(* domain, then the answer of the federation server.                       *)
(*   fed   the resolveFederationAddress call: its arguments, where it      *)
(*         stands (pc), the requests made so far, and the record it        *)
(*         resolved to or the error it rejected with                       *)
(***************************************************************************)
\* address.length === 56
G_ADDRESS_LENGTH == 56

RECURSIVE Split(_, _, _)
\* str.split('*'): cur is the part being read, parts the parts before it
Split(str, cur, parts) ==
    IF str = <<>> THEN Append(parts, cur)
    ELSE IF Head(str) = "*" THEN Split(Tail(str), <<>>, Append(parts, cur))
    ELSE Split(Tail(str), Append(cur, Head(str)), parts)

\* the early answers of resolveFederationAddress: "account" for what looks
\* like a G-address, "invalid" for what is not name*domain, else "lookup"
addressKind(address) ==
    IF Len(address) = G_ADDRESS_LENGTH /\ startsWith(Chars(address), "G")
    THEN "account"
    ELSE LET parts == Split(address, <<>>, <<>>)
         IN  IF Len(parts) # 2 \/ parts[1] = <<>> \/ parts[2] = <<>>
             THEN "invalid" ELSE "lookup"

\* new URL(str) without a base throws TypeError unless str starts with a
\* scheme; a string is its pieces here, the scheme one of them
URLSchemes == {"https:", "http:"}
newURLThrows(str) == str = <<>> \/ Head(str) \notin URLSchemes

\* the values toml['FEDERATION_SERVER'] can hold
ServerValues ==
    {[t |-> "undefined", s |-> <<>>],
     [t |-> "number", s |-> <<>>],
     [t |-> "string", s |-> <<"https:", "//fed.example.com", "/federation">>],
     [t |-> "string", s |-> <<"fed.example.com", "/federation">>],
     [t |-> "string", s |-> <<>>]}

\* how resolveStellarToml settles: the fetch fails, the text does not
\* parse, or the parsed table
TomlOutcomes ==
    {[ok |-> FALSE, err |-> e, server |-> [t |-> "undefined", s |-> <<>>]] :
        e \in {"StellarTomlError: fetch", "StellarTomlError: parse"}}
    \cup {[ok |-> TRUE, err |-> "", server |-> v] : v \in ServerValues}

\* what httpGetJson settles with: a rejection, or the parsed JSON body
JsonOutcomes ==
    {[ok |-> FALSE, t |-> "", account_id |-> "", memo |-> ""],
     [ok |-> TRUE, t |-> "null", account_id |-> "", memo |-> ""],
     [ok |-> TRUE, t |-> "string", account_id |-> "", memo |-> ""]}
    \cup {[ok |-> TRUE, t |-> "object", account_id |-> a, memo |-> m] :
            a \in {"undefined", "number", "string"},
            m \in {"undefined", "number", "string"}}

\* a query that lets a record without account_id through
queryFederationServerUnchecked(json) ==
    IF ~json.ok THEN [err |-> "FederationError: request failed", record |-> json]
    ELSE IF json.memo # "undefined" /\ json.memo # "string"
    THEN [err |-> "FederationError: memo must be a string", record |-> json]
    ELSE [err |-> "", record |-> json]

\* queryFederationServer after new URL: the request and the checks of the
\* answer
queryFederationServer(json) ==
    IF ~json.ok THEN [err |-> "FederationError: request failed", record |-> json]
    ELSE IF json.t # "object" \/ json.account_id # "string"
    THEN [err |-> "FederationError: missing account_id", record |-> json]
    ELSE IF json.memo # "undefined" /\ json.memo # "string"
    THEN [err |-> "FederationError: memo must be a string", record |-> json]
    ELSE [err |-> "", record |-> json]

\* a 'G' followed by n - 1 characters c
GString(n, c) == [k \in 1..n |-> IF k = 1 THEN "G" ELSE c]

AddressSamples ==
    {GString(G_ADDRESS_LENGTH, "A"),
     GString(G_ADDRESS_LENGTH, "*"),
     GString(G_ADDRESS_LENGTH - 1, "A"),
     [k \in 1..G_ADDRESS_LENGTH |-> "M"],
     [k \in 1..G_ADDRESS_LENGTH |-> IF k = 2 THEN "*" ELSE "m"],
     [k \in 1..(G_ADDRESS_LENGTH + 1) |-> IF k = 1 THEN "G" ELSE IF k = 2 THEN "*" ELSE "d"],
     <<"a", "*", "d">>, <<"G", "*", "d">>, <<"b", "o", "b", "*", "e">>,
     <<"a", "*", "b", "*", "c">>,
     <<"*", "d">>, <<"a", "*">>, <<"a", "d">>, <<"*">>, <<>>}

\* resolveFederationAddress(address, opts) is called
FedStart ==
    /\ fed.op = "idle"
    /\ \E address \in AddressSamples, allowHttp \in BOOLEAN :
          LET kind == addressKind(address)
              call == [op |-> "resolveFederationAddress", address |-> address,
                       allowHttp |-> allowHttp, pc |-> "toml", requests |-> <<>>,
                       err |-> "", cause |-> "", memo |-> "undefined",
                       account_id |-> [t |-> "undefined", s |-> <<>>]]
          IN  fed' = IF kind = "account"
                     THEN [call EXCEPT !.pc = "resolved",
                                       !.account_id = [t |-> "string", s |-> address]]
                     ELSE IF kind = "invalid"
                     THEN [call EXCEPT !.pc = "rejected",
                                       !.err = "FederationError: invalid address"]
                     ELSE [call EXCEPT !.requests =
                              <<[protocol |-> IF allowHttp THEN "http" ELSE "https",
                                 domain |-> Split(address, <<>>, <<>>)[2],
                                 path |-> "/.well-known/stellar.toml"]>>]
    /\ UNCHANGED <<codecVars, rpcVars, asm, memo, b32>>

\* resolveStellarToml settles; with a FEDERATION_SERVER string,
\* queryFederationServer builds its URL and sends its request
FedToml ==
    /\ fed.op = "resolveFederationAddress" /\ fed.pc = "toml"
    /\ \E toml \in TomlOutcomes :
          fed' = IF ~toml.ok
                 THEN [fed EXCEPT !.pc = "rejected",
                                  !.err = "FederationError: stellar.toml",
                                  !.cause = toml.err]
                 ELSE IF toml.server.t # "string"
                 THEN [fed EXCEPT !.pc = "rejected",
                                  !.err = "FederationError: no FEDERATION_SERVER"]
                 ELSE IF newURLThrows(toml.server.s)
                 THEN [fed EXCEPT !.pc = "rejected", !.err = "TypeError: Invalid URL"]
                 ELSE [fed EXCEPT !.pc = "query",
                                  !.requests = Append(@,
                                     [protocol |-> Head(toml.server.s),
                                      domain |-> Tail(toml.server.s),
                                      path |-> "?type=name&q=address"])]
    /\ UNCHANGED <<codecVars, rpcVars, asm, memo, b32>>

\* the federation server's answer settles
FedAnswer ==
    /\ fed.op = "resolveFederationAddress" /\ fed.pc = "query"
    /\ \E json \in JsonOutcomes :
          LET r == queryFederationServer(json)
          IN  fed' = IF r.err # ""
                     THEN [fed EXCEPT !.pc = "rejected", !.err = r.err]
                     ELSE [fed EXCEPT !.pc = "resolved",
                                      !.memo = r.record.memo,
                                      !.account_id = [t |-> r.record.account_id,
                                                      s |-> <<"G", "R">>]]
    /\ UNCHANGED <<codecVars, rpcVars, asm, memo, b32>>

\* the caller has the outcome
FedDone ==
    /\ fed.op = "resolveFederationAddress" /\ fed.pc \in {"resolved", "rejected"}
    /\ fed' = NoCall
    /\ UNCHANGED <<codecVars, rpcVars, asm, memo, b32>>

FedNext == FedStart \/ FedToml \/ FedAnswer \/ FedDone

FedSpec == Init /\ [][FedNext]_vars

(***************************************************************************)
(* Base32 of the strkey module.  value holds every bit read so far, as in  *)
(* the code, where only its low bits are looked at; within the bounds it   *)
(* stays below 2^31.                                                       *)
(*   b32   the encodeBase32 or decodeBase32 call: its argument and what    *)
(*         it returned or threw                                            *)
(***************************************************************************)
\* longest string given to decodeBase32
MaxChars == 3
\* longest byte array given to encodeBase32
MaxBytes == 2

BASE32_ALPHABET ==
    <<"A", "B", "C", "D", "E", "F", "G", "H", "I", "J", "K", "L", "M", "N", "O", "P",
      "Q", "R", "S", "T", "U", "V", "W", "X", "Y", "Z", "2", "3", "4", "5", "6", "7">>

\* the characters whose code is 128 or above
NonAscii == {"U+00E9"}

\* BASE32_DECODE_TABLE[code]: the index in the alphabet, 0xff for any other
\* character
BASE32_DECODE_TABLE(c) ==
    IF \E k \in 1..Len(BASE32_ALPHABET) : BASE32_ALPHABET[k] = c
    THEN (CHOOSE k \in 1..Len(BASE32_ALPHABET) : BASE32_ALPHABET[k] = c) - 1
    ELSE 255

RECURSIVE Drain(_, _, _)
\* while (bits >= 5): one character for every 5 bits held
Drain(value, bits, result) ==
    IF bits >= 5
    THEN Drain(value, bits - 5,
               Append(result, BASE32_ALPHABET[((value \div (2 ^ (bits - 5))) % 32) + 1]))
    ELSE [bits |-> bits, result |-> result]

RECURSIVE encodeFrom(_, _, _, _, _)
encodeFrom(data, i, value, bits, result) ==
    IF i > Len(data)
    THEN IF bits > 0
         THEN Append(result, BASE32_ALPHABET[((value * (2 ^ (5 - bits))) % 32) + 1])
         ELSE result
    ELSE LET v == value * 256 + data[i]
             d == Drain(v, bits + 8, result)
         IN  encodeFrom(data, i + 1, v, d.bits, d.result)

encodeBase32(data) == encodeFrom(data, 1, 0, 0, <<>>)

RECURSIVE decodeFrom(_, _, _, _, _)
decodeFrom(input, i, value, bits, output) ==
    IF i > Len(input) THEN [err |-> "", output |-> output]
    ELSE IF input[i] \in NonAscii \/ BASE32_DECODE_TABLE(input[i]) = 255
    THEN [err |-> "Invalid base32 character", output |-> <<>>]
    ELSE LET v == value * 32 + BASE32_DECODE_TABLE(input[i])
         IN  IF bits + 5 >= 8
             THEN decodeFrom(input, i + 1, v, bits + 5 - 8,
                             Append(output, (v \div (2 ^ (bits + 5 - 8))) % 256))
             ELSE decodeFrom(input, i + 1, v, bits + 5, output)

decodeBase32(input) == decodeFrom(input, 1, 0, 0, <<>>)

CharSamples == {"A", "B", "E", "F", "M", "Q", "7", "0", "a", "U+00E9"}
Octets == {0, 97, 255}

\* decodeBase32(input) is called
Base32Decode ==
    /\ b32.op = "idle"
    /\ \E input \in SeqsUpTo(CharSamples, MaxChars) :
          LET r == decodeBase32(input)
          IN  b32' = [op |-> "decodeBase32", input |-> input, data |-> <<>>,
                      err |-> r.err, output |-> r.output, result |-> <<>>]
    /\ UNCHANGED <<codecVars, rpcVars, asm, memo, fed>>

\* encodeBase32(data) is called
Base32Encode ==
    /\ b32.op = "idle"
    /\ \E data \in SeqsUpTo(Octets, MaxBytes) :
          b32' = [op |-> "encodeBase32", input |-> <<>>, data |-> data,
                  err |-> "", output |-> <<>>, result |-> encodeBase32(data)]
    /\ UNCHANGED <<codecVars, rpcVars, asm, memo, fed>>

\* the caller has the outcome
Base32Done ==
    /\ b32.op # "idle"
    /\ b32' = NoCall
    /\ UNCHANGED <<codecVars, rpcVars, asm, memo, fed>>

Base32Next == Base32Decode \/ Base32Encode \/ Base32Done

Base32Spec == Init /\ [][Base32Next]_vars

(***************************************************************************)
(* Notions the properties are stated with                                  *)
(***************************************************************************)
NoCalls == [i \in LazyIds |-> 0]
\* a call made on its own, under the default limits
EncodeAlone(c, value) == toXdr(c, value, DEFAULT_LIMITS, {}, NoCalls)
DecodeAlone(c, input) == fromXdr(c, input, DEFAULT_LIMITS, {}, NoCalls)

RECURSIVE SameValue(_, _), WellFormed(_, _)

\* equality of values: the same fields whatever their key order, the same
\* array elements in the same order
SameValue(a, b) ==
    IF a.t # b.t THEN FALSE
    ELSE CASE a.t = "obj" ->
                /\ Len(a.props) = Len(b.props)
                /\ Keys(a) = Keys(b)
                /\ \A k \in Keys(a) : SameValue(Get(a, k), Get(b, k))
           [] a.t = "arr" ->
                /\ Len(a.items) = Len(b.items)
                /\ \A i \in 1..Len(a.items) : SameValue(a.items[i], b.items[i])
           [] OTHER -> a = b

\* the arm a union value's tag stands for: its payload codec, NoCodec for a
\* void arm, and no arm at all for a tag that is not listed without a default
ArmsOf(config, tag) ==
    IF tag \in ListedTags(config) THEN ListingCodecs(config, tag)
    ELSE IF config.hasDefault THEN {config.defaultCodec} ELSE {}

\* v is a value of the codec's value type
WellFormed(c, v) ==
    CASE c.kind = "int32" -> v.t = "num" /\ v.hi >= -32768 /\ v.hi <= 32767
      [] c.kind = "uint32" -> v.t = "num" /\ v.hi >= 0 /\ v.hi <= 65535
      [] c.kind = "struct" ->
            /\ v.t = "obj"
            /\ Len(v.props) = Len(c.fields)
            /\ Keys(v) = {c.fields[i].name : i \in 1..Len(c.fields)}
            /\ \A i \in 1..Len(c.fields) :
                  WellFormed(c.fields[i].codec, Get(v, c.fields[i].name))
      [] c.kind = "enum" ->
            /\ v.t = "str"
            /\ \E i \in 1..Len(c.members) : c.members[i].name = v.s
            /\ \A i, j \in 1..Len(c.members) :
                  c.members[i].code = c.members[j].code => i = j
      [] c.kind = "union" ->
            /\ v.t = "obj"
            /\ Has(v, "tag")
            /\ WellFormed(c.switchOn, Get(v, "tag"))
            /\ \E arm \in ArmsOf(c, Get(v, "tag")) :
                  IF arm = NoCodec
                  THEN Keys(v) = {"tag"} /\ Len(v.props) = 1
                  ELSE /\ Keys(v) = {"tag", "value"} /\ Len(v.props) = 2
                       /\ WellFormed(arm, Get(v, "value"))
      [] c.kind = "lazy" -> WellFormed(LazyTarget(c.id), v)
      [] c.kind = "fixedArray" ->
            /\ v.t = "arr" /\ Len(v.items) = c.n
            /\ \A i \in 1..Len(v.items) : WellFormed(c.codec, v.items[i])
      [] c.kind = "varArray" ->
            /\ v.t = "arr" /\ Len(v.items) <= c.max
            /\ \A i \in 1..Len(v.items) : WellFormed(c.codec, v.items[i])
      [] c.kind = "option" -> v = Undefined \/ WellFormed(c.codec, v)
      [] c.kind = "varOpaque" ->
            v.t = "bytes" /\ (c.max = NoMax \/ Len(v.b) <= c.max)

(***************************************************************************)
(* C1  Binary round-trip                                                   *)
(***************************************************************************)
\* C1 as stated: whatever value toXdr accepts, decoding the bytes it returned
\* gives a value equal to it (same fields, same discriminant and payload
\* presence, same elements in the same order).
C1_RoundTripOfAccepted ==
    (last.op = "toXdr" /\ last.err = "") =>
        LET d == DecodeAlone(Schema(last.name), last.out)
        IN  d.err = "" /\ SameValue(d.val, last.value)

\* C1 amended: the round trip holds for the values of the codec's value type
\* (exactly the declared fields, a payload exactly when the arm has a payload
\* codec, enum names with pairwise distinct codes).
C1_RoundTripOfTyped ==
    (last.op = "toXdr" /\ last.err = "" /\ WellFormed(Schema(last.name), last.value)) =>
        LET d == DecodeAlone(Schema(last.name), last.out)
        IN  d.err = "" /\ SameValue(d.val, last.value)

\* a tree with a child went through struct, varArray and lazy and was accepted
C1_Witness ==
    /\ last.op = "toXdr" /\ last.err = "" /\ last.name = "Tree"
    /\ WellFormed(Tree, last.value)
    /\ Len(Get(last.value, "children").items) = 1

(***************************************************************************)
(* C2  Canonical form                                                      *)
(***************************************************************************)
\* C2: whatever bytes fromXdr accepts, encoding the value it returned gives
\* back exactly those bytes.
C2_CanonicalForm ==
    (last.op = "fromXdr" /\ last.err = "") =>
        LET e == EncodeAlone(Schema(last.name), last.val)
        IN  e.err = "" /\ e.buf = last.input

\* the codec of the call just made
Called == Schema(last.name)

(***************************************************************************)
(* C3  A top-level decode consumes the whole input                         *)
(***************************************************************************)
\* C3: fromXdr, and fromBase64 through it, return a value only when the reader stands at the end of the
\* buffer after the codec's decode; when the decode succeeds and a byte is
\* left, the call fails with BufferNotFullyConsumed and returns no value.
\* The cursor never leaves the buffer.
C3_WholeInputConsumed ==
    last.op \in {"fromXdr", "fromBase64"} =>
        LET d == Decode(Called, Session(last.input, last.depth, last.pre, {}, NoCalls))
        IN  /\ 0 <= last.pos /\ last.pos <= Len(last.input)
            /\ last.err = "" => last.pos = Len(last.input)
            /\ (d.err = "" /\ d.pos # Len(last.input)) =>
                  (last.err = "BufferNotFullyConsumed" /\ last.val = Undefined)

\* a decode that succeeded and left bytes behind
C3_Witness ==
    /\ last.op = "fromXdr" /\ last.name = "Pair"
    /\ last.err = "BufferNotFullyConsumed"
    /\ last.pos = 8 /\ Len(last.input) > 8

(***************************************************************************)
(* C4  Depth-guard balance                                                 *)
(***************************************************************************)
\* C4: every call, returning or throwing at any nesting level, leaves the
\* current-depth counter of its Limits where it found it, so the Limits
\* object the caller reuses never carries stale depth.
C4_DepthBalanced ==
    /\ last.op # "idle" => last.cur = last.pre
    /\ \A d \in Ceilings : limits[d] = 0

\* a call on the reused Limits that threw three struct levels down
C4_Witness ==
    /\ last.op = "fromXdr" /\ last.shared /\ last.name = "Outer"
    /\ last.err = "BufferUnderflow" /\ last.depth = 3

(***************************************************************************)
(* C5  Every composite level counts against the depth ceiling              *)
(***************************************************************************)
RECURSIVE IsComposite(_), ClaimedDepth(_, _)

IsComposite(c) ==
    CASE c.kind \in {"struct", "union"} -> TRUE
      [] c.kind = "lazy" -> IsComposite(LazyTarget(c.id))
      [] c.kind \in {"fixedArray", "varArray"} -> IsComposite(c.codec)
      [] OTHER -> FALSE

\* the nesting of a value when structs, unions and arrays of composites each
\* count for one level
ClaimedDepth(c, v) ==
    CASE c.kind = "struct" ->
            1 + MaxOf({0} \cup {ClaimedDepth(c.fields[i].codec, Get(v, c.fields[i].name)) :
                                  i \in 1..Len(c.fields)})
      [] c.kind = "union" ->
            1 + MaxOf({0} \cup {ClaimedDepth(arm, Get(v, "value")) :
                                  arm \in ArmsOf(c, Get(v, "tag")) \ {NoCodec}})
      [] c.kind \in {"fixedArray", "varArray"} ->
            (IF IsComposite(c.codec) THEN 1 ELSE 0)
            + MaxOf({0} \cup {ClaimedDepth(c.codec, v.items[i]) : i \in 1..Len(v.items)})
      [] c.kind = "lazy" -> ClaimedDepth(LazyTarget(c.id), v)
      [] c.kind = "option" -> IF v = Undefined THEN 0 ELSE ClaimedDepth(c.codec, v)
      [] OTHER -> 0

\* C5: structs, unions and arrays of composites each take a depth level, so
\* no call succeeds on a value nested deeper, counted that way, than the
\* depth ceiling of its Limits.
C5_ArraysAreDepthScoped ==
    /\ (last.op = "toXdr" /\ last.err = "") =>
          ClaimedDepth(Called, last.value) <= last.depth
    /\ (last.op = "fromXdr" /\ last.err = "") =>
          ClaimedDepth(Called, last.val) <= last.depth

(***************************************************************************)
(* C6  Depth ceiling                                                       *)
(***************************************************************************)
\* the number of nested structs of the struct chains
ChainDepth(name) ==
    CASE name = "Inner" -> 1 [] name = "Middle" -> 2 [] name = "Outer" -> 3

\* C6: decoding the encoding of k nested structs under depth ceiling d fails
\* with DepthLimitExceeded exactly when k > d and succeeds otherwise, so it
\* succeeds under the default limits.
C6_DepthCeiling ==
    (last.op = "fromXdr" /\ last.name \in {"Inner", "Middle", "Outer"}
     /\ Len(last.input) = 4) =>
        /\ last.err = "DepthLimitExceeded" <=> ChainDepth(last.name) > last.depth
        /\ ChainDepth(last.name) <= last.depth => last.err = ""
        /\ ~last.shared => (last.depth = DEFAULT_DEPTH /\ last.err = "")

\* three nested structs under ceiling 2
C6_Witness ==
    /\ last.op = "fromXdr" /\ last.name = "Outer" /\ Len(last.input) = 4
    /\ last.depth = 2 /\ last.err = "DepthLimitExceeded"

(***************************************************************************)
(* C7  Struct field order                                                  *)
(***************************************************************************)
RECURSIVE ConcatFields(_, _, _)
\* the encodings of the fields of a value, in declaration order
ConcatFields(fields, value, i) ==
    IF i > Len(fields) THEN <<>>
    ELSE EncodeAlone(fields[i].codec, Get(value, fields[i].name)).buf
         \o ConcatFields(fields, value, i + 1)

\* C7: the bytes xdrStruct writes are the encodings of the fields in
\* declaration order whatever the key order of the value, and decode reads
\* the fields in that order: the record it returns holds, field by field in
\* declaration order, the values whose encodings make up the input.
C7_FieldOrder ==
    /\ (last.op = "toXdr" /\ Called.kind = "struct" /\ last.err = "") =>
          last.out = ConcatFields(Called.fields, last.value, 1)
    /\ (last.op = "fromXdr" /\ Called.kind = "struct" /\ last.err = "") =>
          /\ last.val.props = [i \in 1..Len(Called.fields) |->
                                 P(Called.fields[i].name,
                                   Get(last.val, Called.fields[i].name))]
          /\ last.input = ConcatFields(Called.fields, last.val, 1)

\* a struct value given with its keys in the other order
C7_Witness ==
    /\ last.op = "toXdr" /\ last.name = "Pair" /\ last.err = ""
    /\ last.value.props[1].k = "y"
    /\ Get(last.value, "x") # Get(last.value, "y")

(***************************************************************************)
(* C8  A discriminant no arm lists, no default arm                         *)
(***************************************************************************)
\* the discriminant at the head of the input, as the discriminator decodes it
HeadTag == Decode(Called.switchOn, Session(last.input, DEFAULT_DEPTH, 0, {}, NoCalls))

\* the call is on a union without default arm and its discriminant is listed
\* in no arm
UnlistedEncode ==
    /\ last.op = "toXdr" /\ Called.kind = "union" /\ ~Called.hasDefault
    /\ Has(last.value, "tag") /\ Get(last.value, "tag") \notin ListedTags(Called)

UnlistedDecode ==
    /\ last.op = "fromXdr" /\ Called.kind = "union" /\ ~Called.hasDefault
    /\ HeadTag.err = "" /\ HeadTag.val \notin ListedTags(Called)

\* C8 as stated: without a default arm, encode and decode of a discriminant
\* that no arm lists fail with InvalidUnionDiscriminant, whatever the
\* discriminator codec and the discriminant.
C8_UnlistedFails ==
    (UnlistedEncode \/ UnlistedDecode) => last.err = "InvalidUnionDiscriminant"

\* C8 amended: they fail with InvalidUnionDiscriminant once the call has got
\* to the arm selection: the depth ceiling admits the union and the
\* discriminator codec has accepted the discriminant.  Before that the call
\* fails with DepthLimitExceeded or with the discriminator's own error.
C8_UnlistedFailsAtSelection ==
    /\ (UnlistedEncode /\ last.pre < last.depth
        /\ EncodeAlone(Called.switchOn, Get(last.value, "tag")).err = "") =>
          last.err = "InvalidUnionDiscriminant"
    /\ (UnlistedDecode /\ last.pre < last.depth) =>
          last.err = "InvalidUnionDiscriminant"
    /\ (UnlistedEncode \/ UnlistedDecode) => last.err # ""

\* a member of the discriminating enum that no arm lists, read from the wire
C8_Witness ==
    /\ UnlistedDecode /\ last.name = "Partial"
    /\ HeadTag.val = Str("Blue") /\ last.err = "InvalidUnionDiscriminant"

(***************************************************************************)
(* C9  Payload presence of a decoded union value                           *)
(***************************************************************************)
\* C9: a decoded union value has a payload field exactly when the arm of its
\* discriminant, explicit or default, has a payload codec; a void arm gives
\* a value holding the discriminant alone.
C9_PayloadPresence ==
    (last.op = "fromXdr" /\ Called.kind = "union" /\ last.err = "") =>
        /\ Has(last.val, "tag")
        /\ \A arm \in ArmsOf(Called, Get(last.val, "tag")) :
              /\ Has(last.val, "value") <=> arm # NoCodec
              /\ arm = NoCodec => last.val = Obj(<<P("tag", Get(last.val, "tag"))>>)
        /\ ArmsOf(Called, Get(last.val, "tag")) # {}

\* a void default arm
C9_Witness ==
    /\ last.op = "fromXdr" /\ last.name = "VoidDefault" /\ last.err = ""
    /\ Get(last.val, "tag") = Num(2) /\ ~Has(last.val, "value")

(***************************************************************************)
(* C10  Union arm selection                                                *)
(***************************************************************************)
\* the bytes of a union value whose payload goes through the given arm
ThroughArm(config, arm, value) ==
    EncodeAlone(config.switchOn, Get(value, "tag")).buf
    \o (IF arm = NoCodec THEN <<>> ELSE EncodeAlone(arm, Get(value, "value")).buf)

\* C10: a discriminant an explicit arm lists goes through that arm's payload
\* codec (none for a void arm, even beside a default arm with a payload);
\* the default arm serves only the discriminants no explicit arm lists.
C10_ArmSelection ==
    /\ (last.op = "toXdr" /\ Called.kind = "union" /\ last.err = "") =>
          /\ ArmsOf(Called, Get(last.value, "tag")) # {}
          /\ \A arm \in ArmsOf(Called, Get(last.value, "tag")) :
                last.out = ThroughArm(Called, arm, last.value)
    /\ (last.op = "fromXdr" /\ Called.kind = "union" /\ last.err = "") =>
          /\ ArmsOf(Called, Get(last.val, "tag")) # {}
          /\ \A arm \in ArmsOf(Called, Get(last.val, "tag")) :
                /\ last.input = ThroughArm(Called, arm, last.val)
                /\ Has(last.val, "value") <=> arm # NoCodec

\* a void explicit arm beside a default arm with a payload, given a value
\* that carries a payload all the same
C10_Witness ==
    /\ last.op = "toXdr" /\ last.name = "MyUnion" /\ last.err = ""
    /\ Get(last.value, "tag") = Num(0) /\ Has(last.value, "value")
    /\ last.out = <<0, 0, 0, 0>>

(***************************************************************************)
(* C11  Enum validation                                                    *)
(***************************************************************************)
\* the value is the name of a declared member
DeclaredName(c, value) ==
    value.t = "str" /\ \E i \in 1..Len(c.members) : c.members[i].name = value.s

\* the word is the code of a declared member
DeclaredCode(c, word) ==
    \E i \in 1..Len(c.members) : Num(c.members[i].code) = word

\* C11: xdrEnum.encode of a value that is not a declared name fails with
\* InvalidEnumValue and writes nothing, xdrEnum.decode of a 4-byte integer
\* that is not a declared code fails with InvalidEnumValue, and declared
\* names and codes (non-contiguous or negative included) never fail.
C11_EnumValidation ==
    /\ (last.op = "toXdr" /\ Called.kind = "enum") =>
          IF DeclaredName(Called, last.value)
          THEN last.err = "" /\ Len(last.out) = 4
          ELSE last.err = "InvalidEnumValue" /\ last.out = <<>>
    /\ (last.op = "fromXdr" /\ Called.kind = "enum" /\ Len(last.input) = 4) =>
          IF DeclaredCode(Called, readInt32(Session(last.input, 0, 0, {}, NoCalls)).val)
          THEN last.err = "" /\ DeclaredName(Called, last.val)
          ELSE last.err = "InvalidEnumValue"

\* the same, for the names Object.prototype does not hold
C11_EnumValidationOwnNames ==
    (last.op = "toXdr" /\ Called.kind = "enum" /\ last.value.t = "str"
     /\ last.value.s \in ObjectPrototype)
    \/ C11_EnumValidation

FlagSet == Len(last.input) >= 4 /\ SubSeq(last.input, 1, 4) = <<0, 0, 0, 1>>

\* C13: option writes flag 0 and nothing more for the absent value and flag
\* 1 followed by the wrapped encoding for a present one, and what decode
\* returns for flag 0 is returned for no input with flag 1, whatever the
\* wrapped codec (an option included).
C13_AbsenceDistinct ==
    /\ (last.op = "toXdr" /\ Called.kind = "option" /\ last.err = "") =>
          last.out = IF last.value = Undefined
                     THEN <<0, 0, 0, 0>>
                     ELSE <<0, 0, 0, 1>> \o EncodeAlone(Called.codec, last.value).buf
    /\ (last.op = "fromXdr" /\ Called.kind = "option" /\ last.err = "") =>
          /\ FlagSet <=> last.val # DecodeAlone(Called, <<0, 0, 0, 0>>).val
          /\ ~FlagSet => last.input = <<0, 0, 0, 0>>

\* the same for the options whose wrapped codec is not itself an option
C13_AbsenceDistinctFlat ==
    (last.op \in {"toXdr", "fromXdr"} /\ Called.kind = "option"
     /\ Called.codec.kind = "option")
    \/ C13_AbsenceDistinct

(***************************************************************************)
(* C14  varArray: the maximum length                                       *)
(***************************************************************************)
\* the Writer as the encode of the call just made left it
WriterLeft == Encode(Called, last.value, Session(<<>>, last.depth, last.pre, {}, NoCalls))

\* the length prefix at the head of the input
Prefix == readUint32(Session(last.input, 0, 0, {}, NoCalls)).val

\* C14: varArray(max, C) fails with LengthExceedsMax exactly when the length
\* of the sequence (encode) or the length prefix read (decode) is greater
\* than max; a length equal to max is accepted; when it fails the Writer has
\* written nothing, and the Reader stands right after the prefix, no element
\* decoded.
C14_MaxLength ==
    /\ (last.op = "toXdr" /\ Called.kind = "varArray" /\ last.value.t = "arr") =>
          /\ last.err = "LengthExceedsMax" <=> Len(last.value.items) > Called.max
          /\ last.err = "LengthExceedsMax" => WriterLeft.buf = <<>>
          /\ (Len(last.value.items) = Called.max /\ WellFormed(Called, last.value)
               /\ ~last.shared) => last.err = ""
    /\ (last.op = "fromXdr" /\ Called.kind = "varArray" /\ Len(last.input) >= 4) =>
          /\ last.err = "LengthExceedsMax" <=>
                (Prefix.hi > 0 \/ Prefix.lo > Called.max)
          /\ last.err = "LengthExceedsMax" => last.pos = 4
          /\ (Prefix = Num(Called.max) /\ ~last.shared
               /\ Len(last.input) = 4 + 4 * Called.max) => last.err = ""

\* one element too many on encode
C14_Witness ==
    /\ last.op = "toXdr" /\ last.name = "Var2" /\ last.value.t = "arr"
    /\ Len(last.value.items) = 3 /\ last.err = "LengthExceedsMax"

(***************************************************************************)
(* C15  fixedArray: exactly n elements, no length prefix                   *)
(***************************************************************************)
RECURSIVE ConcatItems(_, _, _)
\* the encodings of the elements of a sequence, one after the other
ConcatItems(codec, items, i) ==
    IF i > Len(items) THEN <<>>
    ELSE EncodeAlone(codec, items[i]).buf \o ConcatItems(codec, items, i + 1)

\* C15: fixedArray(n, C) writes the encodings of its n elements and nothing
\* else, decode returns exactly n elements read from the input from its
\* first byte on, and encode of a sequence of another length fails with
\* LengthMismatch with nothing written to the Writer.
C15_ExactlyN ==
    /\ (last.op = "toXdr" /\ Called.kind = "fixedArray" /\ last.value.t = "arr") =>
          /\ last.err = "LengthMismatch" <=> Len(last.value.items) # Called.n
          /\ last.err = "LengthMismatch" => WriterLeft.buf = <<>>
          /\ last.err = "" =>
                last.out = ConcatItems(Called.codec, last.value.items, 1)
    /\ (last.op = "fromXdr" /\ Called.kind = "fixedArray" /\ last.err = "") =>
          /\ last.val.t = "arr" /\ Len(last.val.items) = Called.n
          /\ last.input = ConcatItems(Called.codec, last.val.items, 1)

\* one element short
C15_Witness ==
    /\ last.op = "toXdr" /\ last.name = "Fixed2" /\ last.value.t = "arr"
    /\ Len(last.value.items) = 1 /\ last.err = "LengthMismatch"

(***************************************************************************)
(* C16  varOpaque: the maximum is checked before the buffer bound          *)
(***************************************************************************)
\* the prefix is greater than the maximum supplied
OverMax == Called.max # NoMax /\ (Prefix.hi > 0 \/ Prefix.lo > Called.max)

\* the buffer does not hold the bytes the prefix announces
TooShort ==
    Prefix.hi > 0 \/ 4 + Prefix.lo + PadOf(Prefix.lo) > Len(last.input)

\* C16: decoding varOpaque, a prefix greater than the maximum supplied fails
\* with LengthExceedsMax whether or not the buffer holds that many bytes;
\* a prefix within the maximum, or any prefix when no maximum is supplied,
\* fails with BufferUnderflow when the buffer does not hold that many bytes.
C16_MaxBeforeBuffer ==
    (last.op = "fromXdr" /\ Called.kind = "varOpaque" /\ Len(last.input) >= 4) =>
        /\ OverMax => last.err = "LengthExceedsMax"
        /\ (~OverMax /\ TooShort) => last.err = "BufferUnderflow"
        /\ (~OverMax /\ ~TooShort) => last.err \notin {"LengthExceedsMax", "BufferUnderflow"}

\* prefix 0xFFFFFFFF alone, decoded by varOpaque(100)
C16_Witness ==
    /\ last.op = "fromXdr" /\ last.name = "Opaque100"
    /\ last.input = <<255, 255, 255, 255>> /\ last.err = "LengthExceedsMax"

(***************************************************************************)
(* C17  Error propagation                                                  *)
(***************************************************************************)
\* the input is the encoding of a value of the type with its end cut off
CutShort ==
    \E v \in TypedValues(Called, LazyFuel) :
        LET b == EncodeAlone(Called, v).buf
        IN  Len(b) > Len(last.input) /\ SubSeq(b, 1, Len(last.input)) = last.input

\* what the fields of a struct do on their own, one level down
FieldsEncode ==
    EncodeFields(Called.fields, last.value, 1,
                 Session(<<>>, last.depth, last.pre + 1, {}, NoCalls))
FieldsDecode ==
    DecodeFields(Called.fields, <<>>, 1,
                 Session(last.input, last.depth, last.pre + 1, {}, NoCalls))

\* C17: a call that fails returns no value, no bytes and no text; the error
\* the caller gets is the one raised inside: the encoding of a value cut
\* short at any nesting fails with the Reader's BufferUnderflow, and a
\* struct fails with exactly the error its fields raised.
C17_ErrorsPropagate ==
    /\ (last.op # "idle" /\ last.err # "") =>
          /\ last.out = <<>> /\ last.val = Undefined
          /\ last.op = "toBase64" => last.text = <<>>
    /\ (last.op = "fromXdr" /\ ~last.shared /\ CutShort) =>
          last.err = "BufferUnderflow"
    /\ (last.op = "fromXdr" /\ Called.kind = "struct" /\ last.pre < last.depth) =>
          IF FieldsDecode.err # ""
          THEN last.err = FieldsDecode.err
          ELSE last.err \in {"", "BufferNotFullyConsumed"}
    /\ (last.op = "toXdr" /\ Called.kind = "struct" /\ last.pre < last.depth
        /\ last.value.t = "obj") =>
          last.err = FieldsEncode.err

\* a union input that holds its discriminant and nothing of its payload
C17_Witness ==
    /\ last.op = "fromXdr" /\ last.name = "Asset" /\ last.input = <<0, 0, 0, 1>>
    /\ last.err = "BufferUnderflow" /\ last.val = Undefined

(***************************************************************************)
(* C18  Per-call isolation                                                 *)
(***************************************************************************)
\* the Limits of the call just made, as a caller that made no call before
\* would pass them
FreshLimits == [depth |-> last.depth, cur |-> 0]

\* C18: whatever calls were made before on the shared codecs (and on the
\* Limits the caller reuses), a call returns what the same call returns when
\* it is the only call ever made: the same bytes, text, value or error.
C18_CallIsolation ==
    /\ last.op = "toXdr" =>
          LET alone == toXdr(Called, last.value, FreshLimits, {}, NoCalls)
          IN  last.err = alone.err /\ last.out = alone.buf
    /\ last.op = "fromXdr" =>
          LET alone == fromXdr(Called, last.input, FreshLimits, {}, NoCalls)
          IN  last.err = alone.err /\ last.val = alone.val /\ last.pos = alone.pos
    /\ last.op = "toBase64" =>
          LET alone == toBase64(Called, last.value, FreshLimits, {}, NoCalls)
          IN  last.err = alone.err
              /\ last.text = IF alone.err # "" THEN <<>> ELSE alone.buf
    /\ last.op = "fromBase64" =>
          LET alone == fromBase64(Called, last.text, FreshLimits, {}, NoCalls)
          IN  last.err = alone.err /\ last.val = alone.val

\* a call on the tree codec that came after another call had resolved its
\* lazy codec, made on the Limits the caller reuses
C18_Witness ==
    /\ last.op = "fromXdr" /\ last.name = "Tree" /\ last.shared /\ last.err = ""
    /\ Get(last.val, "children") = Arr(<<>>)
    /\ "Tree" \in cached

(***************************************************************************)
(* C19  pollTransaction: the calls it issues                               *)
(***************************************************************************)
\* the ids of the requests the poll sent
PollIds == {sent[k].id : k \in {j \in 1..Len(sent) : sent[j].by = "poll"}}

\* the number of calls the attempts option stands for
Allowed == IF poll.attempts > 0 THEN poll.attempts ELSE 0

\* C19: the poll has at most one getTransaction call pending and issues
\* the next only after the response of the one before; it returns the first
\* response that is not NOT_FOUND and has issued no call beyond it; when
\* every response is NOT_FOUND it rejects with RpcError after exactly
\* attempts calls (30 when the option is not given); it never issues more
\* than attempts calls.
C19_PollCalls ==
    /\ Cardinality(PollIds \cap inflight) = (IF poll.pc = "await" THEN 1 ELSE 0)
    /\ poll.issued = Len(poll.responses) + (IF poll.pc = "await" THEN 1 ELSE 0)
    /\ Cardinality(PollIds) = poll.issued
    /\ poll.pc # "idle" =>
          /\ poll.issued <= Allowed
          /\ ~poll.set => poll.attempts = DEFAULT_ATTEMPTS
          /\ \A k \in 1..(Len(poll.responses) - 1) : poll.responses[k] = "NOT_FOUND"
    /\ poll.pc \in {"loop", "await", "sleeping"} =>
          \A k \in 1..Len(poll.responses) : poll.responses[k] = "NOT_FOUND"
    /\ poll.pc = "returned" =>
          /\ poll.responses # <<>>
          /\ poll.result = poll.responses[Len(poll.responses)]
          /\ poll.result \in GetTransactionStatus \ {"NOT_FOUND"}
    /\ (poll.pc = "rejected"
        /\ \A k \in 1..Len(poll.responses) : poll.responses[k] = "NOT_FOUND") =>
          /\ poll.err = "RpcError: not found"
          /\ poll.issued = Allowed

\* thirty NOT_FOUND responses under the default options
C19_Witness ==
    /\ poll.pc = "rejected" /\ ~poll.set /\ poll.err = "RpcError: not found"
    /\ poll.issued = DEFAULT_ATTEMPTS

(***************************************************************************)
(* C20  JSON-RPC request ids                                               *)
(***************************************************************************)
\* C20: every jsonRpcPost call sends an id greater than the id of every
\* call started before it, so the ids are pairwise distinct, whether the
\* calls overlap, return or reject.
C20_IdsIncrease ==
    /\ \A k, l \in 1..Len(sent) : k < l => sent[k].id < sent[l].id
    /\ \A k \in 1..Len(sent) : sent[k].id < nextId

\* two calls await their response, both started after a call that rejected
C20_Witness ==
    /\ Len(sent) >= 3
    /\ Cardinality(inflight) >= 2
    /\ \E r \in rejectedIds : \A id \in inflight : r < id

(***************************************************************************)
(* C21  assembleTransaction: the inputs it accepts                         *)
(***************************************************************************)
\* a v1 envelope of exactly one operation, and that one a Soroban operation
Assemblable(envelope) ==
    /\ envelope.arm = "Tx"
    /\ Len(envelope.v.tx.operations) = 1
    /\ envelope.v.tx.operations[1].body.arm \in
          {"InvokeHostFunction", "ExtendFootprintTtl", "RestoreFootprint"}

\* C21: assembleTransaction returns an envelope exactly when the input is a
\* v1 envelope of one operation that is InvokeHostFunction,
\* ExtendFootprintTtl or RestoreFootprint; for every other input it throws
\* RpcError and returns nothing.
C21_AcceptsOneSorobanOp ==
    asm.op = "assembleTransaction" =>
        IF Assemblable(asm.envelope)
        THEN asm.err = "" /\ asm.result # <<>> /\ asm.result.arm = "Tx"
        ELSE /\ asm.err \in {"RpcError: requires a v1 envelope",
                             "RpcError: requires exactly one Soroban operation"}
             /\ asm.result = <<>>

\* a v1 envelope of two Soroban operations is refused
C21_Witness ==
    /\ asm.op = "assembleTransaction"
    /\ asm.envelope.arm = "Tx"
    /\ Len(asm.envelope.v.tx.operations) = 2
    /\ \A k \in 1..2 : asm.envelope.v.tx.operations[k].body.arm = "RestoreFootprint"
    /\ asm.err = "RpcError: requires exactly one Soroban operation"

(***************************************************************************)
(* C22  assembleTransaction: what the result keeps and what it sets        *)
(***************************************************************************)
\* the string is a non-empty run of decimal digits
IsDecimal(str) == str # <<>> /\ \A k \in 1..Len(str) : IsDigit(str[k])

RECURSIVE DecimalValue(_)
\* the integer a run of decimal digits denotes
DecimalValue(str) ==
    IF str = <<>> THEN 0
    ELSE 10 * DecimalValue(SubSeq(str, 1, Len(str) - 1)) + DigitValue(str[Len(str)])

\* C22: the envelope assembleTransaction returns has no signature whatever
\* the input carried; its sourceAccount, seqNum, cond, memo and the source
\* account of its operation are those of the input; its fee is the input's
\* fee plus the simulation's minResourceFee (a decimal integer) and its ext
\* is the simulation's transactionData; the input envelope is as it was.
C22_ResultFrame ==
    (asm.op = "assembleTransaction" /\ asm.err = "") =>
        LET origTx == asm.envelope.v.tx
            tx == asm.result.v.tx
        IN  /\ asm.result.v.signatures = <<>>
            /\ tx.sourceAccount = origTx.sourceAccount
            /\ tx.seqNum = origTx.seqNum
            /\ tx.cond = origTx.cond
            /\ tx.memo = origTx.memo
            /\ Len(tx.operations) = 1
            /\ tx.operations[1].sourceAccount = origTx.operations[1].sourceAccount
            /\ IsDecimal(asm.simulation.minResourceFee) =>
                  tx.fee = Number(origTx.fee.n + DecimalValue(asm.simulation.minResourceFee))
            /\ tx.ext = ArmOf("1", asm.simulation.transactionData)
            /\ asm.after = asm.envelope

\* a signed envelope with a memo, assembled with a fee of 50
C22_Witness ==
    /\ asm.op = "assembleTransaction" /\ asm.err = ""
    /\ asm.envelope.v.signatures # <<>>
    /\ asm.envelope.v.tx.memo.arm = "Text"
    /\ asm.simulation.minResourceFee = <<"5", "0">>
    /\ asm.result.v.tx.fee = Number(150)
    /\ asm.result.v.signatures = <<>>

(***************************************************************************)
(* C27  assembleTransaction: the auth rule                                 *)
(***************************************************************************)
\* the auth list of the first result of the simulation, empty without one
SimulatedAuth(simulation) ==
    IF simulation.results = <<>> THEN <<>> ELSE simulation.results[1].auth

\* C27: the InvokeHostFunction of the result carries the first result's
\* auth list of the simulation when the input's auth list is empty and the
\* simulation's is not, and the input's auth list otherwise, with the
\* hostFunction of the input; an ExtendFootprintTtl or RestoreFootprint
\* body is the input's body.
C27_AuthRule ==
    (asm.op = "assembleTransaction" /\ asm.err = "") =>
        LET origBody == asm.envelope.v.tx.operations[1].body
            body == asm.result.v.tx.operations[1].body
        IN  IF origBody.arm = "InvokeHostFunction"
            THEN /\ body.arm = "InvokeHostFunction"
                 /\ body.v.hostFunction = origBody.v.hostFunction
                 /\ body.v.auth =
                       IF origBody.v.auth = <<>> /\ SimulatedAuth(asm.simulation) # <<>>
                       THEN SimulatedAuth(asm.simulation)
                       ELSE origBody.v.auth
            ELSE body = origBody

\* an operation with one auth entry keeps it though the simulation has two
C27_Witness ==
    /\ asm.op = "assembleTransaction" /\ asm.err = ""
    /\ asm.envelope.v.tx.operations[1].body.arm = "InvokeHostFunction"
    /\ Len(asm.envelope.v.tx.operations[1].body.v.auth) = 1
    /\ Len(SimulatedAuth(asm.simulation)) = 2
    /\ Len(asm.result.v.tx.operations[1].body.v.auth) = 1

(***************************************************************************)
(* C23  checkMemoRequired: the operation it reports                        *)
(***************************************************************************)
\* the call is under way or over
MemoCalled == memo.op = "checkMemoRequired"

\* the indices (from 0) of the operations of a memo-required type whose
\* destination is an account, not muxed, that requires a memo
Requiring ==
    {k \in 0..(Len(memo.operations) - 1) :
        LET op == memo.operations[k + 1]
        IN  /\ op.type \in {"payment", "pathPaymentStrictReceive",
                            "pathPaymentStrictSend", "accountMerge"}
            /\ op.destination.defined
            /\ op.destination.chars \in {DEST_A, DEST_B}
            /\ memo.ledger[op.destination.chars] = "MQ=="}

\* C23: with memoType 'none' and a loader that answers, the call rejects
\* with AccountRequiresMemoError carrying the index and the destination of
\* the first operation, in list order, of type payment,
\* pathPaymentStrictReceive, pathPaymentStrictSend or accountMerge whose
\* non-muxed destination account has config.memo_required = 'MQ=='; the
\* loader call for that destination is the last one made; without such an
\* operation the call resolves.
C23_FirstRequiringOperation ==
    (MemoCalled /\ memo.memoType = "none") =>
        /\ memo.pc = "resolved" => Requiring = {}
        /\ (memo.pc = "rejected" /\ memo.err # "loader error") =>
              /\ memo.err = "AccountRequiresMemoError"
              /\ memo.operationIndex \in Requiring
              /\ \A k \in Requiring : memo.operationIndex <= k
              /\ memo.accountId = memo.operations[memo.operationIndex + 1].destination.chars
              /\ memo.loads # <<>>
              /\ memo.loads[Len(memo.loads)] = memo.accountId
        /\ (memo.pc = "rejected" /\ memo.err = "loader error") =>
              /\ memo.loads # <<>>
              /\ memo.ledger[memo.loads[Len(memo.loads)]] = "rejects"
              /\ \A k \in Requiring : memo.i < k

\* the third operation is the first whose destination requires a memo
C23_Witness ==
    /\ MemoCalled /\ memo.pc = "rejected"
    /\ memo.err = "AccountRequiresMemoError"
    /\ memo.operationIndex = 2
    /\ memo.accountId = DEST_B
    /\ memo.operations[1].destination = Chars(DEST_A)
    /\ memo.operations[2].destination = Chars(MUXED)
    /\ memo.operations[3].type = "accountMerge"
    /\ Len(memo.loads) = 2

(***************************************************************************)
(* C24  checkMemoRequired: the loader calls                                *)
(***************************************************************************)
\* C24: the loader is called at most once for each destination, never when
\* memoType is not 'none', and only for the destination of an operation of
\* one of the four memo-required types that has a destination not starting
\* with 'M'.
C24_LoaderCalls ==
    MemoCalled =>
        /\ \A k, l \in 1..Len(memo.loads) : k # l => memo.loads[k] # memo.loads[l]
        /\ memo.memoType # "none" => memo.loads = <<>>
        /\ \A k \in 1..Len(memo.loads) :
              /\ memo.loads[k] # <<>>
              /\ Head(memo.loads[k]) # "M"
              /\ \E j \in 1..Len(memo.operations) :
                    /\ memo.operations[j].destination = Chars(memo.loads[k])
                    /\ memo.operations[j].type \in
                          {"payment", "pathPaymentStrictReceive",
                           "pathPaymentStrictSend", "accountMerge"}

\* three payments to one destination, loaded once
C24_Witness ==
    /\ MemoCalled /\ memo.pc = "resolved" /\ memo.memoType = "none"
    /\ Len(memo.operations) = 3
    /\ \A k \in 1..3 : memo.operations[k] = [type |-> "payment", destination |-> Chars(DEST_A)]
    /\ memo.loads = <<DEST_A>>

(***************************************************************************)
(* C25  resolveFederationAddress: its outcomes                             *)
(***************************************************************************)
FedCalled == fed.op = "resolveFederationAddress"

FederationErrors ==
    {"FederationError: invalid address", "FederationError: stellar.toml",
     "FederationError: no FEDERATION_SERVER", "FederationError: request failed",
     "FederationError: missing account_id", "FederationError: memo must be a string"}

\* the address is name*domain: one '*', with something on either side
NameAtDomain(address) ==
    /\ Cardinality({k \in 1..Len(address) : address[k] = "*"}) = 1
    /\ address[1] # "*" /\ address[Len(address)] # "*"

\* what looks like an account id: 56 characters, the first a 'G'
LooksLikeAccount(address) ==
    Len(address) = G_ADDRESS_LENGTH /\ address[1] = "G"

\* C25: the call resolves to a record whose account_id is a string or
\* rejects with FederationError, whatever fails; for a 56-character address
\* starting with 'G', and for an address that is not name*domain, it makes
\* no network request.
C25_FederationOutcomes ==
    FedCalled =>
        /\ fed.pc = "resolved" => fed.account_id.t = "string"
        /\ fed.pc = "rejected" => fed.err \in FederationErrors
        /\ (LooksLikeAccount(fed.address) \/ ~NameAtDomain(fed.address)) =>
              fed.requests = <<>>

\* the same, when a FEDERATION_SERVER string is an absolute URL: the one
\* other rejection is the TypeError of new URL
C25_FederationOutcomesUrl ==
    FedCalled =>
        /\ fed.pc = "resolved" => fed.account_id.t = "string"
        /\ fed.pc = "rejected" =>
              fed.err \in FederationErrors \cup {"TypeError: Invalid URL"}
        /\ fed.err = "TypeError: Invalid URL" =>
              /\ Len(fed.requests) = 1
              /\ ~LooksLikeAccount(fed.address) /\ NameAtDomain(fed.address)
        /\ (LooksLikeAccount(fed.address) \/ ~NameAtDomain(fed.address)) =>
              fed.requests = <<>>
        /\ fed.pc = "resolved" =>
              IF LooksLikeAccount(fed.address)
              THEN fed.account_id.s = fed.address
              ELSE Len(fed.requests) = 2

(***************************************************************************)
(* C26  decodeBase32 is strict                                             *)
(***************************************************************************)
\* every character of the string is one of the RFC 4648 alphabet
InAlphabet(str) ==
    \A k \in 1..Len(str) : \E j \in 1..Len(BASE32_ALPHABET) : BASE32_ALPHABET[j] = str[k]

\* the bits of the string beyond its whole bytes
Leftover(str) == (5 * Len(str)) % 8

\* those bits are not all zero
NonZeroTrailingBits(str) ==
    /\ str # <<>>
    /\ BASE32_DECODE_TABLE(str[Len(str)]) % (2 ^ Leftover(str)) # 0

\* C26: decodeBase32 rejects a string with a character outside the RFC 4648
\* alphabet and a string whose last character carries non-zero trailing
\* bits; a string it accepts is the encoding of the bytes it returns, so no
\* two strings decode to the same bytes.
C26_StrictDecoding ==
    b32.op = "decodeBase32" =>
        /\ ~InAlphabet(b32.input) => b32.err # ""
        /\ (InAlphabet(b32.input) /\ NonZeroTrailingBits(b32.input)) => b32.err # ""
        /\ b32.err = "" => encodeBase32(b32.output) = b32.input

\* what the code does: it rejects the characters outside the alphabet and
\* nothing else, and drops the bits beyond the last whole byte; encoding
\* then decoding gives the bytes back
C26_LenientDecoding ==
    /\ b32.op = "decodeBase32" =>
          /\ b32.err # "" <=> ~InAlphabet(b32.input)
          /\ b32.err = "" =>
                /\ Len(b32.output) = (5 * Len(b32.input)) \div 8
                /\ (~NonZeroTrailingBits(b32.input) /\ Leftover(b32.input) < 5)
                      <=> encodeBase32(b32.output) = b32.input
    /\ b32.op = "encodeBase32" =>
          /\ decodeBase32(b32.result) = [err |-> "", output |-> b32.data]
          /\ ~NonZeroTrailingBits(b32.result)

(***************************************************************************)
(* C28  Enum bijection                                                     *)
(***************************************************************************)
\* no two members of the enum are declared with the same code
DistinctCodes(c) ==
    \A i, j \in 1..Len(c.members) :
        i # j => c.members[i].code # c.members[j].code

\* C28: for every enum and every declared name, decoding the encoding of
\* the name gives the name, and encoding the name a code decodes to gives
\* the code: the two maps are mutual inverses on the declared set, enums
\* declaring two names with one code included.
C28_EnumBijection ==
    /\ (last.op = "toXdr" /\ Called.kind = "enum" /\ DeclaredName(Called, last.value)) =>
          /\ last.err = ""
          /\ DecodeAlone(Called, last.out).err = ""
          /\ DecodeAlone(Called, last.out).val = last.value
    /\ (last.op = "fromXdr" /\ Called.kind = "enum" /\ last.err = "") =>
          /\ DeclaredName(Called, last.val)
          /\ EncodeAlone(Called, last.val).err = ""
          /\ EncodeAlone(Called, last.val).buf = last.input

\* C28 amended: the same for the enums whose codes are pairwise distinct;
\* with a shared code the code decodes to the name declared last.
C28_EnumBijectionDistinct ==
    /\ (last.op \in {"toXdr", "fromXdr"} /\ Called.kind = "enum" /\ DistinctCodes(Called)) =>
          C28_EnumBijection
    /\ (last.op = "toXdr" /\ Called.kind = "enum" /\ DeclaredName(Called, last.value)) =>
          /\ last.err = ""
          /\ DecodeAlone(Called, last.out).err = ""
          /\ LET back == DecodeAlone(Called, last.out).val
                 at == CHOOSE i \in 1..Len(Called.members) : Called.members[i].name = last.value.s
                 to == CHOOSE i \in 1..Len(Called.members) : Called.members[i].name = back.s
             IN  /\ DeclaredName(Called, back)
                 /\ Called.members[to].code = Called.members[at].code
                 /\ at <= to

\* the member of negative code, after two others of codes 0 and 5
C28_Witness ==
    /\ last.op = "toXdr" /\ last.name = "Flags" /\ last.err = ""
    /\ last.value = Str("C")
    /\ DecodeAlone(Flags, last.out).val = Str("C")

(***************************************************************************)
(* C29  pollTransaction: a rejected getTransaction call                    *)
(***************************************************************************)
\* C29: only a NOT_FOUND response is followed by another attempt; when a
\* getTransaction call rejects, the poll rejects with that error, the
\* rejected call is the last it issued and no wait follows it, whatever
\* attempts remain.
C29_RejectionEndsPoll ==
    \A k \in 1..Len(poll.responses) :
        /\ k < Len(poll.responses) => poll.responses[k] = "NOT_FOUND"
        /\ poll.responses[k] \in Failures =>
              /\ poll.pc = "rejected"
              /\ poll.err = poll.responses[k]
              /\ poll.issued = k
              /\ Len(poll.slept) = k - 1
              /\ PollIds \cap inflight = {}

\* the second call fails with an HTTP error while one attempt remains
C29_Witness ==
    /\ poll.pc = "rejected" /\ poll.err = "http"
    /\ poll.attempts = 3
    /\ poll.responses = <<"NOT_FOUND", "http">>
    /\ poll.issued = 2 /\ poll.slept = <<0>>

(***************************************************************************)
(* C30  pollTransaction: pacing and termination                            *)
(***************************************************************************)
\* the waits so far are sleepStrategy(0), sleepStrategy(1), ... in order,
\* one before each call but the first, and none after the last attempt
Pacing ==
    /\ \A k \in 1..Len(poll.slept) : poll.slept[k] = k - 1
    /\ poll.pc = "await" => Len(poll.slept) = poll.issued - 1
    /\ poll.pc = "sleeping" =>
          Len(poll.slept) = poll.issued /\ poll.issued < poll.attempts
    /\ poll.pc = "loop" =>
          Len(poll.slept) = (IF poll.issued < poll.attempts THEN poll.issued
                             ELSE poll.issued - 1)
          \/ poll.issued = 0
    /\ poll.pc \in {"returned", "rejected"} =>
          /\ poll.issued > 0 => Len(poll.slept) = poll.issued - 1
          /\ poll.attempts > 0 => Len(poll.slept) <= poll.attempts - 1
    /\ (poll.pc # "idle" /\ poll.attempts <= 0) =>
          /\ poll.issued = 0 /\ poll.slept = <<>>
          /\ poll.pc \in {"loop", "rejected"}
          /\ poll.pc = "rejected" => poll.err = "RpcError: not found"

\* the poll has been called and has not settled
Polling == poll.pc \in {"loop", "await", "sleeping"}

====
